---- MODULE Spec2Model ----
(***************************************************************************)
(* Model of the Luma attendance importer (src/import_luma_attendance.py):  *)
(* person resolution, attendance recording, first-event recomputation,     *)
(* referral credit and the commit / rollback structure of                  *)
(* process_event_csv.                                                      *)
(*                                                                         *)
(* Text values (names, emails, phone numbers, tracking links) are          *)
(* sequences of one-character strings, so that lower(), strip(), title(),  *)
(* the "in" substring test and SequenceMatcher.ratio() are computed, not   *)
(* assumed.  The SQL NULL / Python None is the value NULL.                 *)
(***************************************************************************)
EXTENDS Integers, Sequences, FiniteSets, TLC

(***************************************************************************)
(* Bounds of the model.                                                    *)
(***************************************************************************)
\* rows read from CSV files, over all calls of process_event_csv
MaxRows == 3

(***************************************************************************)
(* Program constants.                                                      *)
(***************************************************************************)
CONNECTION_REFRESH_INTERVAL == 50

COMMIT_INTERVAL == 10

VARCHAR_LIMIT == 100

\* FUZZY_MATCH_THRESHOLD = 0.80 and the 0.90 acceptance level, as fractions.
FUZZY_MATCH_THRESHOLD == [num |-> 80, den |-> 100]

HIGH_CONFIDENCE == [num |-> 90, den |-> 100]

(***************************************************************************)
(* Text.                                                                   *)
(***************************************************************************)
NULL == <<"NULL">>

UpperCase == <<"A","B","C","D","E","F","G","H","I","J","K","L","M",
               "N","O","P","Q","R","S","T","U","V","W","X","Y","Z">>

LowerCase == <<"a","b","c","d","e","f","g","h","i","j","k","l","m",
               "n","o","p","q","r","s","t","u","v","w","x","y","z">>

IsUpper(c) == \E i \in 1..26 : UpperCase[i] = c

IsLower(c) == \E i \in 1..26 : LowerCase[i] = c

IsAlpha(c) == IsUpper(c) \/ IsLower(c)

LowerChar(c) == IF IsUpper(c) THEN LowerCase[CHOOSE i \in 1..26 : UpperCase[i] = c] ELSE c

UpperChar(c) == IF IsLower(c) THEN UpperCase[CHOOSE i \in 1..26 : LowerCase[i] = c] ELSE c

\* str.lower()
Lower(s) == [i \in 1..Len(s) |-> LowerChar(s[i])]

\* str.title(): a letter is upper-cased when it starts a word, lower-cased otherwise
Title(s) ==
    [i \in 1..Len(s) |->
        IF i = 1 \/ ~IsAlpha(s[i-1]) THEN UpperChar(s[i]) ELSE LowerChar(s[i])]

\* str.strip()
Strip(s) ==
    LET keep == {i \in 1..Len(s) : s[i] # " "}
    IN  IF keep = {} THEN <<>>
        ELSE LET lo == CHOOSE i \in keep : \A j \in keep : i <= j
                 hi == CHOOSE i \in keep : \A j \in keep : j <= i
             IN  SubSeq(s, lo, hi)

\* s[:n]
Take(s, n) == IF Len(s) <= n THEN s ELSE SubSeq(s, 1, n)

\* the Python test  sub in s
Contains(s, sub) ==
    \E i \in 1..(Len(s) + 1) :
        /\ i + Len(sub) - 1 <= Len(s)
        /\ \A d \in 1..Len(sub) : s[i + d - 1] = sub[d]

\* str.replace(old, new) for one-character old and new
ReplaceChar(s, old, new) == [i \in 1..Len(s) |-> IF s[i] = old THEN new ELSE s[i]]

\* Python truthiness of an optional text: None and "" are false
Truthy(s) == s # NULL /\ s # <<>>

Min2(a, b) == IF a <= b THEN a ELSE b

MaxOf(S) == CHOOSE x \in S : \A y \in S : y <= x

MinOf(S) == CHOOSE x \in S : \A y \in S : x <= y

(***************************************************************************)
(* difflib.SequenceMatcher(None, a, b).ratio() = 2*M / T, where M is the   *)
(* number of matched characters found by recursively taking the longest    *)
(* common block (earliest in a, then earliest in b) and T = len(a)+len(b). *)
(***************************************************************************)
RunLen(a, b, i, j, ahi, bhi) ==
    MaxOf({k \in 0..Min2(ahi - i + 1, bhi - j + 1) : \A d \in 0..(k-1) : a[i+d] = b[j+d]})

RECURSIVE MatchCount(_, _, _, _, _, _)
MatchCount(a, b, alo, ahi, blo, bhi) ==
    IF alo > ahi \/ blo > bhi THEN 0
    ELSE LET k  == MaxOf({RunLen(a, b, i, j, ahi, bhi) : i \in alo..ahi, j \in blo..bhi})
         IN  IF k = 0 THEN 0
             ELSE LET i == MinOf({x \in alo..ahi : \E y \in blo..bhi : RunLen(a, b, x, y, ahi, bhi) = k})
                      j == MinOf({y \in blo..bhi : RunLen(a, b, i, y, ahi, bhi) = k})
                  IN  k + MatchCount(a, b, alo, i - 1, blo, j - 1)
                        + MatchCount(a, b, i + k, ahi, j + k, bhi)

\* the ratio as a fraction num/den; difflib returns 1.0 when both are empty
fuzzy_ratio(str_a, str_b) ==
    IF Len(str_a) + Len(str_b) = 0 THEN [num |-> 1, den |-> 1]
    ELSE [num |-> 2 * MatchCount(str_a, str_b, 1, Len(str_a), 1, Len(str_b)),
          den |-> Len(str_a) + Len(str_b)]

\* (r1 + r2) / 2
Average(r1, r2) == [num |-> r1.num * r2.den + r2.num * r1.den, den |-> 2 * r1.den * r2.den]

RatioGeq(r, s) == r.num * s.den >= s.num * r.den

RatioGt(r, s) == r.num * s.den > s.num * r.den

(***************************************************************************)
(* Sample texts of the input rows.                                         *)
(***************************************************************************)
ben == <<"b","e","n">>

Ben == <<"B","e","n">>

Benjamin == <<"B","e","n","j","a","m","i","n">>

smith == <<"s","m","i","t","h">>

Smith == <<"S","m","i","t","h">>

SmithsPadded == <<"S","m","i","t","h","s"," ">>

MailLower == <<"a","@","x",".","i","o">>

MailUpper == <<"A","@","X",".","I","O">>

MailEdu == <<"b","@","m",".","e","d","u">>

Phone == <<"5","5","5">>

Scanned == <<"1">>

Completed == <<"C","o","m","p","l","e","t","e","d">>

Timestamp == <<"2","0","2","5">>

(***************************************************************************)
(* The events table: ids and start_datetime.  Event 2 starts before        *)
(* event 1, so the order of ids is not the order of start times.           *)
(***************************************************************************)
Events == {1, 2}

start_datetime == <<2, 1>>

(***************************************************************************)
(* Input rows: the columns of COLUMN_MAPPING plus the referral column.     *)
(*   Anonymous   no first name, no contact: matches nobody                 *)
(*   BenNoShow   "ben smith", registered only                              *)
(*   BenScanned  the same registrant, checked in                           *)
(*   BenPhone    "Ben Smiths " with a phone, came through the link "ben"   *)
(*   Benjamin    "Benjamin Smith", school and personal email, link "ben"   *)
(*   BenMail     "Ben Smith", the personal email in upper case, the phone  *)
(***************************************************************************)
Anonymous ==
    [first_name |-> NULL, last_name |-> Smith, email |-> NULL, school_email |-> NULL,
     phone |-> NULL, approved |-> Completed, checked_in |-> Scanned,
     rsvp_datetime |-> NULL, tracking_link |-> NULL, referral |-> NULL]

BenNoShow ==
    [first_name |-> ben, last_name |-> smith, email |-> NULL, school_email |-> NULL,
     phone |-> NULL, approved |-> NULL, checked_in |-> NULL,
     rsvp_datetime |-> NULL, tracking_link |-> NULL, referral |-> NULL]

BenScanned ==
    [first_name |-> ben, last_name |-> smith, email |-> NULL, school_email |-> NULL,
     phone |-> NULL, approved |-> Completed, checked_in |-> Scanned,
     rsvp_datetime |-> Timestamp, tracking_link |-> NULL, referral |-> NULL]

BenPhone ==
    [first_name |-> Ben, last_name |-> SmithsPadded, email |-> NULL, school_email |-> NULL,
     phone |-> Phone, approved |-> Completed, checked_in |-> Scanned,
     rsvp_datetime |-> NULL, tracking_link |-> ben, referral |-> NULL]

BenjaminRow ==
    [first_name |-> Benjamin, last_name |-> Smith, email |-> MailLower, school_email |-> MailEdu,
     phone |-> NULL, approved |-> Completed, checked_in |-> Scanned,
     rsvp_datetime |-> NULL, tracking_link |-> ben, referral |-> NULL]

BenMail ==
    [first_name |-> Ben, last_name |-> Smith, email |-> MailUpper, school_email |-> NULL,
     phone |-> Phone, approved |-> Completed, checked_in |-> NULL,
     rsvp_datetime |-> NULL, tracking_link |-> NULL, referral |-> NULL]

Rows == {Anonymous, BenNoShow, BenScanned, BenPhone, BenjaminRow, BenMail}

\* the CSV files of at most n rows
CsvFiles(n) == UNION {[1..k -> Rows] : k \in 0..n}

(***************************************************************************)
(* find_or_create_person: normalisation of the row.                        *)
(***************************************************************************)
DotEdu == <<".","e","d","u">>

\* lines 643-660 and 666-676: the row_data dictionary
RowData(row) ==
    LET first_name    == IF Truthy(row.first_name) THEN Title(Strip(row.first_name)) ELSE row.first_name
        last_name     == IF Truthy(row.last_name) THEN Title(Strip(row.last_name)) ELSE row.last_name
        primary_email == IF Truthy(row.school_email) THEN row.school_email ELSE row.email
        is_school_email == Truthy(primary_email) /\ Contains(Lower(primary_email), DotEdu)
    IN  [first_name     |-> first_name,
         last_name      |-> last_name,
         school_email   |-> IF is_school_email THEN primary_email ELSE NULL,
         personal_email |-> IF is_school_email
                            THEN (IF Truthy(row.email) /\ row.email # row.school_email
                                  THEN row.email ELSE NULL)
                            ELSE primary_email,
         phone          |-> IF Truthy(row.phone) THEN Strip(row.phone) ELSE NULL]

(***************************************************************************)
(* The lookup strategies.  Each is a query on the people table and yields  *)
(* the set of ids the query may return: fetchone() / results[0] on a       *)
(* query without ORDER BY returns any one of the matching rows.            *)
(***************************************************************************)
find_person_by_email(people, email) ==
    IF ~Truthy(email) THEN {}
    ELSE LET e == Strip(Lower(email))
         IN  {p \in DOMAIN people :
                \/ people[p].school_email # NULL /\ Lower(people[p].school_email) = e
                \/ people[p].personal_email # NULL /\ Lower(people[p].personal_email) = e}

find_person_by_phone(people, phone) ==
    IF ~Truthy(phone) THEN {}
    ELSE {p \in DOMAIN people : people[p].phone_number = Strip(phone)}

find_person_by_name(people, first_name, last_name) ==
    IF ~Truthy(first_name) \/ ~Truthy(last_name) THEN {}
    ELSE LET f == Title(Strip(first_name))
             l == Title(Strip(last_name))
         IN  {p \in DOMAIN people :
                /\ people[p].first_name # NULL /\ Lower(people[p].first_name) = Lower(f)
                /\ people[p].last_name # NULL /\ Lower(people[p].last_name) = Lower(l)}

\* avg_ratio of line 526 for one stored person with non-null names
avg_ratio(first_name, last_name, person) ==
    Average(fuzzy_ratio(Lower(first_name), Lower(person.first_name)),
            fuzzy_ratio(Lower(last_name), Lower(person.last_name)))

\* fuzzy_match_name: [raises, found].  db_first.lower() / db_last.lower() raise
\* AttributeError on a stored NULL name; found is the set of ids the stable
\* sort can leave in matches[0] (those of the highest average), if it is >= 0.90.
fuzzy_match_name(people, first_name, last_name) ==
    IF ~Truthy(first_name) \/ ~Truthy(last_name) THEN [raises |-> FALSE, found |-> {}]
    ELSE IF \E p \in DOMAIN people : people[p].first_name = NULL \/ people[p].last_name = NULL
    THEN [raises |-> TRUE, found |-> {}]
    ELSE LET f == Title(Strip(first_name))
             l == Title(Strip(last_name))
             matches == {p \in DOMAIN people :
                            RatioGeq(avg_ratio(f, l, people[p]), FUZZY_MATCH_THRESHOLD)}
             best == {p \in matches :
                        \A q \in matches : RatioGeq(avg_ratio(f, l, people[p]), avg_ratio(f, l, people[q]))}
         IN  [raises |-> FALSE,
              found  |-> {p \in best : RatioGeq(avg_ratio(f, l, people[p]), HIGH_CONFIDENCE)}]

(***************************************************************************)
(* fuzzy_match_name on given similarity ratios (lines 519-540).  A ratio   *)
(* is given in hundredths; ratios maps each stored person to the pair      *)
(* <<first_ratio, last_ratio>>.  The source computes                       *)
(* (first_ratio + last_ratio) / 2 in double precision: for the pairs of    *)
(* RoundsBelow the sum of the two doubles is 1.7999999999999998 and the    *)
(* average 0.8999999999999999, although the two hundredths add up to 180.  *)
(* No pair of hundredths is rounded across 0.80, and no other pair across  *)
(* 0.90.  (The names of the sample rows are short enough for avg_ratio to  *)
(* agree with the exact value: a ratio of difflib is 2*M/T, and the pairs  *)
(* rounded across a threshold need T >= 40.)                               *)
(***************************************************************************)
RoundsBelow ==
    { <<82, 98>>, <<83, 97>>, <<84, 96>>, <<85, 95>>, <<86, 94>>,
      <<94, 86>>, <<95, 85>>, <<96, 84>>, <<97, 83>>, <<98, 82>> }

Hundredths(n) == [num |-> n, den |-> 100]

\* avg_ratio >= threshold as the double arithmetic of lines 526, 528 and 536 decides it
avg_geq(pair, threshold) ==
    /\ RatioGeq(Average(Hundredths(pair[1]), Hundredths(pair[2])), threshold)
    /\ ~(threshold = HIGH_CONFIDENCE /\ pair \in RoundsBelow)

\* lines 528-529: the people appended to matches
shortlist(ratios) == {p \in DOMAIN ratios : avg_geq(ratios[p], FUZZY_MATCH_THRESHOLD)}

\* lines 531-540: the ids the call may return, 0 for None; matches[0] after the
\* stable sort is one of the shortlisted people of the highest average
fuzzy_match_ratios(ratios) ==
    LET matches == shortlist(ratios)
        best == {p \in matches : \A q \in matches :
                    ratios[p][1] + ratios[p][2] >= ratios[q][1] + ratios[q][2]}
        accepted == {p \in best : avg_geq(ratios[p], HIGH_CONFIDENCE)}
    IN  IF accepted = {} THEN {0} ELSE accepted

(***************************************************************************)
(* The cascade of lines 678-698, one strategy per step ("if not person_id  *)
(* and ...").  by_school_email etc. are what each step would find; Match   *)
(* is what the cascade returns: [raises, found] with found = {} for        *)
(* "no match".                                                             *)
(***************************************************************************)
by_school_email(people, row) ==
    IF Truthy(RowData(row).school_email)
    THEN find_person_by_email(people, RowData(row).school_email) ELSE {}

by_personal_email(people, row) ==
    IF Truthy(RowData(row).personal_email)
    THEN find_person_by_email(people, RowData(row).personal_email) ELSE {}

by_phone(people, row) ==
    IF Truthy(row.phone) THEN find_person_by_phone(people, row.phone) ELSE {}

by_name(people, row) ==
    IF Truthy(RowData(row).first_name) /\ Truthy(RowData(row).last_name)
    THEN find_person_by_name(people, RowData(row).first_name, RowData(row).last_name) ELSE {}

by_fuzzy(people, row) ==
    IF Truthy(RowData(row).first_name) /\ Truthy(RowData(row).last_name)
    THEN fuzzy_match_name(people, RowData(row).first_name, RowData(row).last_name)
    ELSE [raises |-> FALSE, found |-> {}]

\* mutant: the exact-name lookup is tried before the email and phone lookups
Match_name_first(people, row) ==
    IF by_name(people, row) # {}
    THEN [raises |-> FALSE, found |-> by_name(people, row)]
    ELSE IF by_school_email(people, row) # {}
    THEN [raises |-> FALSE, found |-> by_school_email(people, row)]
    ELSE IF by_personal_email(people, row) # {}
    THEN [raises |-> FALSE, found |-> by_personal_email(people, row)]
    ELSE IF by_phone(people, row) # {}
    THEN [raises |-> FALSE, found |-> by_phone(people, row)]
    ELSE by_fuzzy(people, row)

Match(people, row) ==
    IF by_school_email(people, row) # {}
    THEN [raises |-> FALSE, found |-> by_school_email(people, row)]
    ELSE IF by_personal_email(people, row) # {}
    THEN [raises |-> FALSE, found |-> by_personal_email(people, row)]
    ELSE IF by_phone(people, row) # {}
    THEN [raises |-> FALSE, found |-> by_phone(people, row)]
    ELSE IF by_name(people, row) # {}
    THEN [raises |-> FALSE, found |-> by_name(people, row)]
    ELSE by_fuzzy(people, row)

(***************************************************************************)
(* Writes of find_or_create_person.                                        *)
(***************************************************************************)
\* create_person: INSERT INTO people; contact fields NULL, counters at their default 0
create_person(people, id, row_data) ==
    [p \in DOMAIN people \cup {id} |->
        IF p = id
        THEN [first_name |-> row_data.first_name, last_name |-> row_data.last_name,
              school_email |-> NULL, personal_email |-> NULL, phone_number |-> NULL,
              referral_count |-> 0, event_attendance_count |-> 0]
        ELSE people[p]]

\* COALESCE(column, value)
Coalesce(column, value) == IF column # NULL THEN column ELSE value

\* mutant: the incoming value wins, COALESCE(value, column)
update_contact_info_overwrite(people, person_id, row_data) ==
    [people EXCEPT ![person_id] =
        [@ EXCEPT !.school_email   = Coalesce(row_data.school_email, @),
                  !.personal_email = Coalesce(row_data.personal_email, @),
                  !.phone_number   = Coalesce(row_data.phone, @)]]

\* update_contact_info: the UPDATE of lines 601-608
update_contact_info(people, person_id, row_data) ==
    [people EXCEPT ![person_id] =
        [@ EXCEPT !.school_email   = Coalesce(@, row_data.school_email),
                  !.personal_email = Coalesce(@, row_data.personal_email),
                  !.phone_number   = Coalesce(@, row_data.phone)]]

\* update_contact_info: the returned flag of lines 611-619
contact_updated_flag(people, person_id, row_data) ==
    \/ people[person_id].school_email = NULL /\ row_data.school_email # NULL
    \/ people[person_id].personal_email = NULL /\ row_data.personal_email # NULL
    \/ people[person_id].phone_number = NULL /\ row_data.phone # NULL

\* max(a, b, key=len): the first of the longest
Longer(a, b) == IF Len(b) > Len(a) THEN b ELSE a

\* a.lower() in b.lower() or b.lower() in a.lower()
EitherContains(a, b) == Contains(Lower(b), Lower(a)) \/ Contains(Lower(a), Lower(b))

\* update_names_if_substring: the updates dictionary of lines 322-336
name_updates(sheet_first, sheet_last, input_first, input_last) ==
    LET sf == IF Truthy(sheet_first) THEN sheet_first ELSE <<>>
        if == IF Truthy(input_first) THEN input_first ELSE <<>>
    IN  [first_name |-> IF EitherContains(sf, if) THEN Longer(sf, if) ELSE NULL,
         last_name  |-> IF sheet_last # NULL /\ input_last # NULL /\ EitherContains(sheet_last, input_last)
                        THEN Longer(sheet_last, input_last) ELSE NULL,
         any        |-> \/ EitherContains(sf, if)
                        \/ sheet_last # NULL /\ input_last # NULL /\ EitherContains(sheet_last, input_last)]

\* update_names_if_substring: the UPDATE of line 352
update_names_if_substring(people, person_id, input_first, input_last) ==
    LET u == name_updates(people[person_id].first_name, people[person_id].last_name,
                          input_first, input_last)
    IN  [people EXCEPT ![person_id] =
            [@ EXCEPT !.first_name = IF u.first_name # NULL THEN u.first_name ELSE @,
                      !.last_name  = IF u.last_name # NULL THEN u.last_name ELSE @]]

(***************************************************************************)
(* Invite tokens.                                                          *)
(***************************************************************************)
Default == <<"d","e","f","a","u","l","t">>

MailingList == "mailing list"

PersonalOutreach == "personal outreach"

\* generic_codes of find_or_create_invite_token (line 733)
token_generic_codes ==
    { <<"d","e","f","a","u","l","t">>,
      <<"e","m","a","i","l","r","e","f","e","r","r","a","l">>,
      <<"e","m","a","i","l">>,
      <<"i","n","s","t","a","g","r","a","m">>,
      <<"f","a","c","e","b","o","o","k">> }

\* lines 727-738: the value and category a tracking link is stored under
token_value(tracking_link) ==
    LET t == Take(Strip(IF ~Truthy(tracking_link) THEN Default ELSE tracking_link), VARCHAR_LIMIT)
    IN  IF Lower(t) \in token_generic_codes THEN Default ELSE t

token_category(tracking_link) ==
    LET t == Take(Strip(IF ~Truthy(tracking_link) THEN Default ELSE tracking_link), VARCHAR_LIMIT)
    IN  IF Lower(t) \in token_generic_codes THEN MailingList ELSE PersonalOutreach

\* mutant: the SELECT of lines 741-748 left out, every call inserts
find_or_create_invite_token_insert(invitetokens, event_id, tracking_link, next_id) ==
    {[invitetokens |-> invitetokens \cup
            {[id |-> next_id, event_id |-> event_id,
              category |-> token_category(tracking_link),
              value |-> token_value(tracking_link)]},
      id |-> next_id, created |-> TRUE]}

\* mutant: "event_id = %s AND" left out of the SELECT of lines 741-744
find_or_create_invite_token_any_event(invitetokens, event_id, tracking_link, next_id) ==
    LET existing == {t \in invitetokens : t.value = token_value(tracking_link)}
    IN  IF existing # {}
        THEN {[invitetokens |-> invitetokens, id |-> t.id, created |-> FALSE] : t \in existing}
        ELSE {[invitetokens |-> invitetokens \cup
                    {[id |-> next_id, event_id |-> event_id,
                      category |-> token_category(tracking_link),
                      value |-> token_value(tracking_link)]},
               id |-> next_id, created |-> TRUE]}

\* find_or_create_invite_token: the possible results [invitetokens, id, created];
\* the SELECT returns any token of (event_id, value), else one is inserted as next_id
find_or_create_invite_token(invitetokens, event_id, tracking_link, next_id) ==
    LET existing == {t \in invitetokens : t.event_id = event_id /\ t.value = token_value(tracking_link)}
    IN  IF existing # {}
        THEN {[invitetokens |-> invitetokens, id |-> t.id, created |-> FALSE] : t \in existing}
        ELSE {[invitetokens |-> invitetokens \cup
                    {[id |-> next_id, event_id |-> event_id,
                      category |-> token_category(tracking_link),
                      value |-> token_value(tracking_link)]},
               id |-> next_id, created |-> TRUE]}

(***************************************************************************)
(* create_attendance_record.                                               *)
(***************************************************************************)
TrueValues == { <<"1">>, <<"1",".","0">>, <<"t","r","u","e">>, <<"y","e","s">> }

\* line 776
rsvp_of(row) == row.approved # NULL

\* line 777
approved_of(row) == Truthy(row.approved) /\ Lower(row.approved) = Lower(Completed)

\* line 778
checked_in_of(row) == Truthy(row.checked_in) /\ Lower(row.checked_in) \in TrueValues

\* lines 780-789: pd.to_datetime(..., errors='coerce'); a text of digits parses
rsvp_datetime_of(row) ==
    IF Truthy(row.rsvp_datetime)
       /\ \A i \in 1..Len(row.rsvp_datetime) :
             row.rsvp_datetime[i] \in {"0","1","2","3","4","5","6","7","8","9"}
    THEN row.rsvp_datetime ELSE NULL

\* mutant: a plain INSERT, without ON CONFLICT DO NOTHING
insert_attendance_plain(attendance, rec) == attendance \cup {rec}

\* mutant: an upsert, ON CONFLICT (person_id, event_id) DO UPDATE
insert_attendance_upsert(attendance, rec) ==
    {a \in attendance : ~(a.person_id = rec.person_id /\ a.event_id = rec.event_id)} \cup {rec}

\* lines 795-815: INSERT ... ON CONFLICT (person_id, event_id) DO NOTHING
insert_attendance(attendance, rec) ==
    IF \E a \in attendance : a.person_id = rec.person_id /\ a.event_id = rec.event_id
    THEN attendance
    ELSE attendance \cup {rec}

\* mutant: "AND a.checked_in = TRUE" left out of the query of lines 820-828
earliest_event_any_row(attendance, person_id) ==
    LET mine == {a \in attendance : a.person_id = person_id}
    IN  {a.event_id : a \in {x \in mine :
            \A y \in mine : start_datetime[x.event_id] <= start_datetime[y.event_id]}}

\* lines 820-828: the ids the ORDER BY e.start_datetime ASC LIMIT 1 query may return
earliest_event(attendance, person_id) ==
    LET mine == {a \in attendance : a.person_id = person_id /\ a.checked_in}
    IN  {a.event_id : a \in {x \in mine :
            \A y \in mine : start_datetime[x.event_id] <= start_datetime[y.event_id]}}

\* mutant: an incremental patch, the second UPDATE (clearing the others) left out
set_first_event_patch(attendance, person_id, earliest_event_id) ==
    {IF a.person_id = person_id /\ a.event_id = earliest_event_id
     THEN [a EXCEPT !.is_first_event = TRUE]
     ELSE a : a \in attendance}

\* lines 834-845: the two UPDATEs of is_first_event
set_first_event(attendance, person_id, earliest_event_id) ==
    {IF a.person_id = person_id
     THEN [a EXCEPT !.is_first_event = (a.event_id = earliest_event_id)]
     ELSE a : a \in attendance}

(***************************************************************************)
(* Referral attribution.                                                   *)
(***************************************************************************)
\* generic_codes of match_tracking_link_to_person (lines 382-386)
link_generic_codes ==
    { <<"d","e","f","a","u","l","t">>,
      <<"e","m","a","i","l","r","e","f","e","r","r","a","l">>,
      <<"e","m","a","i","l","_","f","i","r","s","t","_","b","u","t","t","o","n">>,
      <<"e","m","a","i","l","_","s","e","c","o","n","d","_","b","u","t","t","o","n">>,
      <<"e","m","a","i","l">>,
      <<"t","x","t">>,
      <<"i","n","s","t","a">>,
      <<"m","a","i","l","l","i","s","t">>,
      <<"l","a","s","t","n","a","m","e">>,
      <<"[","n","a","m","e","]">> }

NameOrEmpty(name) == IF Truthy(name) THEN Lower(name) ELSE <<>>

\* mutant: is_single_word left out, last names are compared for every link
match_tracking_link_to_person_any(people, link_value, fuzzy_threshold) ==
    IF ~Truthy(link_value) THEN {}
    ELSE LET link == Lower(Strip(link_value))
             clean_name == Strip(ReplaceChar(ReplaceChar(link, "_", " "), "-", " "))
             first(p) == NameOrEmpty(people[p].first_name)
             last(p) == NameOrEmpty(people[p].last_name)
             exact == {p \in DOMAIN people : clean_name = first(p) \/ clean_name = last(p)}
             ratios(p) == (IF first(p) # <<>> THEN {fuzzy_ratio(clean_name, first(p))} ELSE {})
                          \cup (IF last(p) # <<>> THEN {fuzzy_ratio(clean_name, last(p))} ELSE {})
             good(p) == {r \in ratios(p) : RatioGeq(r, fuzzy_threshold) /\ r.num > 0}
             all == UNION {good(p) : p \in DOMAIN people}
         IN  IF link \in link_generic_codes THEN {}
             ELSE IF exact # {} THEN exact
             ELSE {p \in DOMAIN people :
                     \E r \in good(p) : \A q \in all : RatioGeq(r, q)}

\* match_tracking_link_to_person: the ids it may return ({} for None).  The
\* exact loop returns the first person, in the unordered result of the SELECT,
\* whose first name (or last name, for a multi-word link) equals the link; the
\* fuzzy loop keeps the first person that reaches the best ratio >= threshold.
match_tracking_link_to_person(people, link_value, fuzzy_threshold) ==
    IF ~Truthy(link_value) THEN {}
    ELSE LET link == Lower(Strip(link_value))
             is_single_word == ~Contains(link, <<"_">>) /\ ~Contains(link, <<"-">>)
             clean_name == Strip(ReplaceChar(ReplaceChar(link, "_", " "), "-", " "))
             first(p) == NameOrEmpty(people[p].first_name)
             last(p) == NameOrEmpty(people[p].last_name)
             exact == {p \in DOMAIN people :
                          \/ clean_name = first(p)
                          \/ ~is_single_word /\ clean_name = last(p)}
             ratios(p) == (IF first(p) # <<>> THEN {fuzzy_ratio(clean_name, first(p))} ELSE {})
                          \cup (IF ~is_single_word /\ last(p) # <<>>
                                THEN {fuzzy_ratio(clean_name, last(p))} ELSE {})
             good(p) == {r \in ratios(p) : RatioGeq(r, fuzzy_threshold) /\ r.num > 0}
             all == UNION {good(p) : p \in DOMAIN people}
         IN  IF link \in link_generic_codes THEN {}
             ELSE IF exact # {} THEN exact
             ELSE {p \in DOMAIN people :
                     \E r \in good(p) : \A q \in all : RatioGeq(r, q)}

\* mutant: an idempotent credit, SET referral_count = 1
increment_referral_count_set(people, referrer_id) ==
    [people EXCEPT ![referrer_id].referral_count = 1]

\* mutant: the UPDATE of lines 952-956 executed twice
increment_referral_count_twice(people, referrer_id) ==
    [people EXCEPT ![referrer_id].referral_count = @ + 2]

\* lines 952-956: UPDATE people SET referral_count = referral_count + 1
increment_referral_count(people, referrer_id) ==
    [people EXCEPT ![referrer_id].referral_count = @ + 1]

\* mutant: the test "referrer_id != person_id" left out
credit_referrer_self(people, referrer_id, person_id) ==
    IF referrer_id # 0
    THEN increment_referral_count(people, referrer_id)
    ELSE people

\* lines 950-956: the referrer is credited unless there is none or it is the attendee
credit_referrer(people, referrer_id, person_id) ==
    IF referrer_id # 0 /\ referrer_id # person_id
    THEN increment_referral_count(people, referrer_id)
    ELSE people

(***************************************************************************)
(* The aggregates recomputed after a batch.                                *)
(***************************************************************************)
\* mutant: counts every attendance row of the event, checked in or not
update_event_attendance_count_all(events, attendance, event_id) ==
    [events EXCEPT ![event_id] =
        Cardinality({a \in attendance : a.event_id = event_id})]

\* update_event_attendance_count
update_event_attendance_count(events, attendance, event_id) ==
    [events EXCEPT ![event_id] =
        Cardinality({a \in attendance : a.event_id = event_id /\ a.checked_in})]

\* mutant: counts only the person's checked-in rows of this event
update_person_attendance_counts_event(people, attendance, event_id) ==
    [p \in DOMAIN people |->
        IF \E a \in attendance : a.event_id = event_id /\ a.person_id = p
        THEN [people[p] EXCEPT !.event_attendance_count =
                Cardinality({a \in attendance :
                    a.person_id = p /\ a.event_id = event_id /\ a.checked_in})]
        ELSE people[p]]

\* update_person_attendance_counts
update_person_attendance_counts(people, attendance, event_id) ==
    [p \in DOMAIN people |->
        IF \E a \in attendance : a.event_id = event_id /\ a.person_id = p
        THEN [people[p] EXCEPT !.event_attendance_count =
                Cardinality({a \in attendance : a.person_id = p /\ a.checked_in})]
        ELSE people[p]]

(***************************************************************************)
(* find_or_create_person and create_attendance_record as a whole: the set  *)
(* of results each call may have on a given store.                         *)
(***************************************************************************)
\* lines 700-719 for a row that matched person_id: contact merge, then name
\* reconciliation, whose UPDATE is followed by conn.commit()
merge_into(people, person_id, row_data) ==
    LET merged    == update_contact_info(people, person_id, row_data)
        reconcile == Truthy(row_data.first_name) /\ Truthy(row_data.last_name)
        updates   == name_updates(merged[person_id].first_name, merged[person_id].last_name,
                                  row_data.first_name, row_data.last_name)
    IN  [raises          |-> FALSE,
         people          |-> IF reconcile
                             THEN update_names_if_substring(merged, person_id,
                                        row_data.first_name, row_data.last_name)
                             ELSE merged,
         person_id       |-> person_id,
         was_created     |-> FALSE,
         contact_updated |-> contact_updated_flag(people, person_id, row_data),
         commits         |-> reconcile /\ updates.any]

\* mutant: "was_created = True" left out
create_from_unreported(people, next_id, row_data) ==
    LET created == create_person(people, next_id, row_data)
    IN  [raises          |-> FALSE,
         people          |-> update_contact_info(created, next_id, row_data),
         person_id       |-> next_id,
         was_created     |-> FALSE,
         contact_updated |-> contact_updated_flag(created, next_id, row_data),
         commits         |-> FALSE]

\* lines 700-706 for a row that matched nobody
create_from(people, next_id, row_data) ==
    LET created == create_person(people, next_id, row_data)
    IN  [raises          |-> FALSE,
         people          |-> update_contact_info(created, next_id, row_data),
         person_id       |-> next_id,
         was_created     |-> TRUE,
         contact_updated |-> contact_updated_flag(created, next_id, row_data),
         commits         |-> FALSE]

find_or_create_person(people, row, next_id) ==
    LET m == Match(people, row)
    IN  IF m.raises
        THEN {[raises |-> TRUE, people |-> people, person_id |-> 0, was_created |-> FALSE,
               contact_updated |-> FALSE, commits |-> FALSE]}
        ELSE IF m.found = {}
        THEN {create_from(people, next_id, RowData(row))}
        ELSE {merge_into(people, id, RowData(row)) : id \in m.found}

\* mutant: the flag is computed only for a person none of whose rows has it yet
recompute_first_event_once(attendance, person_id, checked_in) ==
    IF /\ checked_in /\ earliest_event(attendance, person_id) # {}
       /\ ~\E a \in attendance : a.person_id = person_id /\ a.is_first_event
    THEN {set_first_event(attendance, person_id, e) : e \in earliest_event(attendance, person_id)}
    ELSE {attendance}

\* lines 817-845: the recomputation of is_first_event for a checked-in row
recompute_first_event(attendance, person_id, checked_in) ==
    IF checked_in /\ earliest_event(attendance, person_id) # {}
    THEN {set_first_event(attendance, person_id, e) : e \in earliest_event(attendance, person_id)}
    ELSE {attendance}

\* create_attendance_record after the token is resolved: the attendance tables it may leave
create_attendance_record(attendance, person_id, event_id, row, invite_token_id) ==
    recompute_first_event(
        insert_attendance(attendance,
            [person_id |-> person_id, event_id |-> event_id,
             rsvp |-> rsvp_of(row), approved |-> approved_of(row),
             checked_in |-> checked_in_of(row), rsvp_datetime |-> rsvp_datetime_of(row),
             is_first_event |-> FALSE, invite_token_id |-> invite_token_id]),
        person_id, checked_in_of(row))

\* fuzzy_threshold=0.8, the default of match_tracking_link_to_person
LINK_FUZZY_THRESHOLD == [num |-> 8, den |-> 10]

\* mutant: the test "if checked_in:" of line 931 left out
resolve_referrer_any_row(people, row) ==
    LET by_link   == IF Truthy(row.tracking_link)
                     THEN match_tracking_link_to_person(people, row.tracking_link, LINK_FUZZY_THRESHOLD)
                     ELSE {}
        by_column == IF row.referral # NULL
                     THEN fuzzy_match_name(people, Strip(row.referral), <<>>)
                     ELSE [raises |-> FALSE, found |-> {}]
    IN  IF by_column.raises THEN [raises |-> TRUE, found |-> {}]
        ELSE IF by_column.found # {} THEN [raises |-> FALSE, found |-> by_column.found]
        ELSE IF by_link # {} THEN [raises |-> FALSE, found |-> by_link]
        ELSE [raises |-> FALSE, found |-> {0}]

\* lines 931-948: the referrer ids the row may resolve to; 0 stands for None
resolve_referrer(people, row) ==
    LET by_link   == IF Truthy(row.tracking_link)
                     THEN match_tracking_link_to_person(people, row.tracking_link, LINK_FUZZY_THRESHOLD)
                     ELSE {}
        by_column == IF row.referral # NULL
                     THEN fuzzy_match_name(people, Strip(row.referral), <<>>)
                     ELSE [raises |-> FALSE, found |-> {}]
    IN  IF ~checked_in_of(row) THEN [raises |-> FALSE, found |-> {0}]
        ELSE IF by_column.raises THEN [raises |-> TRUE, found |-> {}]
        ELSE IF by_column.found # {} THEN [raises |-> FALSE, found |-> by_column.found]
        ELSE IF by_link # {} THEN [raises |-> FALSE, found |-> by_link]
        ELSE [raises |-> FALSE, found |-> {0}]

\* line 962: whether the loop replaces the session after the row that made
\* processed_count = n (ensure_connection with force_refresh=True, lines 82-93)
refreshes_after(n) == n % CONNECTION_REFRESH_INTERVAL = 0

\* mutant: the "elif processed_count % 10 == 0: conn.commit()" of lines 967-968 left out
commits_after_refresh(n) == n % CONNECTION_REFRESH_INTERVAL = 0

\* lines 961-969: whether the loop commits after the row that made processed_count = n
commits_after(n) == n % CONNECTION_REFRESH_INTERVAL = 0 \/ n % COMMIT_INTERVAL = 0

(***************************************************************************)
(* State.                                                                  *)
(*   db         the tables as the open session sees them                   *)
(*   committed  the tables as committed                                    *)
(*   seq        the people / invitetokens id sequences (never rolled back) *)
(*   pc         where process_event_csv stands                             *)
(*   event_id, csv, processed_count, person_id, was_created,               *)
(*   contact_updated, referrer_id   locals of process_event_csv            *)
(*   inserted   whether the INSERT of the current row added a row          *)
(*   rows_read  rows read from CSV files so far, over all calls            *)
(*   outcome    how the last call ended: "none", "completed", or the       *)
(*              exception it raised                                        *)
(*   rerun      the current call repeats the call before it (same event,   *)
(*              same rows), which had completed                            *)
(*   before     the committed tables when the current call started         *)
(*   conn       the session of the current call: the number of sessions    *)
(*              the call has opened (0 when no call runs) and whether the  *)
(*              open one is still alive                                    *)
(*   probe      the argument and result of a function evaluated on its     *)
(*              own (the specifications of the pure functions); the batch  *)
(*              importer leaves it alone                                   *)
(***************************************************************************)
VARIABLES db, committed, seq, pc, event_id, csv, processed_count, person_id,
          was_created, contact_updated, referrer_id, inserted, rows_read,
          outcome, rerun, before, conn, probe

vars == <<db, committed, seq, pc, event_id, csv, processed_count, person_id,
          was_created, contact_updated, referrer_id, inserted, rows_read,
          outcome, rerun, before, conn, probe>>

\* no call of process_event_csv runs: no session is open
NoSession == [id |-> 0, alive |-> FALSE]

NoProbe == [op |-> "none"]

row_locals == <<person_id, was_created, contact_updated, referrer_id, inserted>>

call_vars == <<event_id, csv, rows_read, outcome, rerun, before>>

EmptyStore ==
    [people       |-> <<>>,
     attendance   |-> {},
     invitetokens |-> {},
     events       |-> [e \in Events |-> 0]]

\* no call runs, nothing is stored
Idle ==
    /\ db = EmptyStore
    /\ committed = EmptyStore
    /\ seq = [people |-> 0, invitetokens |-> 0]
    /\ pc = "idle"
    /\ event_id = 0
    /\ csv = <<>>
    /\ processed_count = 0
    /\ person_id = 0
    /\ was_created = FALSE
    /\ contact_updated = FALSE
    /\ referrer_id = 0
    /\ inserted = FALSE
    /\ rows_read = 0
    /\ outcome = "none"
    /\ rerun = FALSE
    /\ before = EmptyStore
    /\ conn = NoSession

Init == Idle /\ probe = NoProbe

CurrentRow == csv[processed_count + 1]

\* mutant: the handler re-raises without conn.rollback(), and the session's
\* pending work is committed when it closes
Rollback_commit(exception) ==
    /\ committed' = db
    /\ pc' = "failed"
    /\ outcome' = exception
    /\ UNCHANGED <<db, seq, processed_count, row_locals, event_id, csv, rows_read,
                   rerun, before, conn, probe>>

\* lines 989-992: except Exception: conn.rollback(); raise
Rollback(exception) ==
    /\ db' = committed
    /\ pc' = "failed"
    /\ outcome' = exception
    /\ UNCHANGED <<committed, seq, processed_count, row_locals, event_id, csv, rows_read,
                   rerun, before, conn, probe>>

\* lines 859-887: process_event_csv opens its session and reads the CSV file
Enter(e, rows) ==
    /\ pc = "idle"
    /\ rows_read' = rows_read + Len(rows)
    /\ event_id' = e
    /\ csv' = rows
    /\ processed_count' = 0
    /\ rerun' = (outcome = "completed" /\ event_id = e /\ csv = rows)
    /\ before' = committed
    /\ pc' = IF Len(rows) = 0 THEN "final" ELSE "person"
    /\ conn' = [id |-> 1, alive |-> TRUE]
    /\ UNCHANGED <<db, committed, seq, row_locals, outcome>>

\* main(): process_event_csv(event_id, csv_path, ...) is called
StartBatch(e, rows) ==
    /\ rows_read + Len(rows) <= MaxRows
    /\ Enter(e, rows)
    /\ UNCHANGED probe

\* line 890: find_or_create_person
FindOrCreatePerson ==
    /\ pc = "person"
    /\ conn.alive
    /\ \E res \in find_or_create_person(db.people, CurrentRow, seq.people + 1) :
          IF res.raises THEN Rollback("AttributeError")
          ELSE /\ db' = [db EXCEPT !.people = res.people]
               /\ committed' = IF res.commits THEN db' ELSE committed
               /\ seq' = IF res.was_created THEN [seq EXCEPT !.people = @ + 1] ELSE seq
               /\ person_id' = res.person_id
               /\ was_created' = res.was_created
               /\ contact_updated' = res.contact_updated
               /\ pc' = "attendance"
               /\ UNCHANGED <<processed_count, referrer_id, inserted, call_vars, conn, probe>>

\* line 897: create_attendance_record
CreateAttendanceRecord ==
    /\ pc = "attendance"
    /\ conn.alive
    /\ \E tok \in find_or_create_invite_token(db.invitetokens, event_id,
                        CurrentRow.tracking_link, seq.invitetokens + 1) :
       \E att \in create_attendance_record(db.attendance, person_id, event_id, CurrentRow, tok.id) :
          /\ db' = [db EXCEPT !.invitetokens = tok.invitetokens, !.attendance = att]
          /\ seq' = IF tok.created THEN [seq EXCEPT !.invitetokens = @ + 1] ELSE seq
          /\ inserted' = ~(\E a \in db.attendance : a.person_id = person_id /\ a.event_id = event_id)
          /\ pc' = "referral"
          /\ UNCHANGED <<committed, processed_count, person_id, was_created,
                         contact_updated, referrer_id, call_vars, conn, probe>>

\* lines 930-969: referral credit, processed_count, periodic commit / refresh
CreditReferrer ==
    /\ pc = "referral"
    /\ conn.alive
    /\ LET r == resolve_referrer(db.people, CurrentRow)
       IN  IF r.raises THEN Rollback("AttributeError")
           ELSE \E ref \in r.found :
                  /\ referrer_id' = ref
                  /\ db' = [db EXCEPT !.people = credit_referrer(@, ref, person_id)]
                  /\ processed_count' = processed_count + 1
                  /\ committed' = IF commits_after(processed_count') THEN db' ELSE committed
                  /\ conn' = IF refreshes_after(processed_count')
                              THEN [id |-> conn.id + 1, alive |-> TRUE] ELSE conn
                  /\ pc' = IF processed_count' < Len(csv) THEN "person" ELSE "final"
                  /\ UNCHANGED <<seq, person_id, was_created, contact_updated,
                                 inserted, call_vars, probe>>

\* lines 971-978: final commit, update_event_attendance_count, update_person_attendance_counts
FinishBatch ==
    /\ pc = "final"
    /\ conn.alive
    /\ db' = [db EXCEPT
                !.events = update_event_attendance_count(@, db.attendance, event_id),
                !.people = update_person_attendance_counts(@, db.attendance, event_id)]
    /\ committed' = db'
    /\ pc' = "done"
    /\ UNCHANGED <<seq, processed_count, row_locals, call_vars, conn, probe>>

\* a storage call raises (psycopg2.Error): lines 989-992
StorageError ==
    /\ pc \in {"person", "attendance", "referral", "final"}
    /\ conn.alive
    /\ Rollback("StorageError")

\* update_event_attendance_count or update_person_attendance_counts raises:
\* the final commit of line 972 has been made, and in the second case the
\* commit of update_event_attendance_count (line 254) too
AggregateError ==
    /\ pc = "final"
    /\ conn.alive
    /\ \/ committed' = db
       \/ committed' = [db EXCEPT !.events = update_event_attendance_count(@, db.attendance, event_id)]
    /\ db' = committed'
    /\ pc' = "failed"
    /\ outcome' = "StorageError"
    /\ UNCHANGED <<seq, processed_count, row_locals, event_id, csv, rows_read,
                   rerun, before, conn, probe>>

\* the server or the network drops the session while the call runs
ConnectionLost ==
    /\ pc \in {"person", "attendance", "referral", "final"}
    /\ conn.alive
    /\ conn' = [conn EXCEPT !.alive = FALSE]
    /\ UNCHANGED <<db, committed, seq, pc, processed_count, row_locals, call_vars, probe>>

\* the next statement on a lost session raises psycopg2.OperationalError; the
\* loop calls ensure_connection only after every 50th row (line 962), so the
\* exception reaches the handler of lines 989-992; the lost session's
\* uncommitted work is gone
OperationalError ==
    /\ pc \in {"person", "attendance", "referral", "final"}
    /\ ~conn.alive
    /\ Rollback("OperationalError")

\* lines 993-995 and the return to main(): the call is over, its locals are gone
Return ==
    /\ pc \in {"done", "failed"}
    /\ outcome' = IF pc = "done" THEN "completed" ELSE outcome
    /\ pc' = "idle"
    /\ processed_count' = 0
    /\ person_id' = 0
    /\ was_created' = FALSE
    /\ contact_updated' = FALSE
    /\ referrer_id' = 0
    /\ inserted' = FALSE
    /\ rerun' = FALSE
    /\ before' = EmptyStore
    /\ conn' = NoSession
    /\ UNCHANGED <<db, committed, seq, event_id, csv, rows_read, probe>>

Next ==
    \/ \E e \in Events, rows \in CsvFiles(MaxRows - rows_read) : StartBatch(e, rows)
    \/ FindOrCreatePerson
    \/ CreateAttendanceRecord
    \/ CreditReferrer
    \/ FinishBatch
    \/ Return

Spec == Init /\ [][Next]_vars

\* the same program on a store whose calls may fail
NextFaults == Next \/ StorageError \/ AggregateError \/ ConnectionLost \/ OperationalError

SpecFaults == Init /\ [][NextFaults]_vars

(***************************************************************************)
(* fuzzy_match_name on its own: the stored people are given by their       *)
(* similarity ratios to the name looked up.                                *)
(***************************************************************************)
MaxCandidates == 2

RatioSamples == {0, 79, 80, 81, 85, 89, 90, 95, 100}

importer_vars == <<db, committed, seq, pc, event_id, csv, processed_count, person_id,
                   was_created, contact_updated, referrer_id, inserted, rows_read,
                   outcome, rerun, before, conn>>

InitFuzzy ==
    /\ Idle
    /\ \E r \in [1..MaxCandidates -> RatioSamples \X RatioSamples] :
          probe = [op |-> "fuzzy_match_name", ratios |-> r, returned |-> FALSE, result |-> 0]

FuzzyMatchName ==
    /\ probe.op = "fuzzy_match_name" /\ ~probe.returned
    /\ \E id \in fuzzy_match_ratios(probe.ratios) :
          probe' = [probe EXCEPT !.returned = TRUE, !.result = id]
    /\ UNCHANGED importer_vars

SpecFuzzy == InitFuzzy /\ [][FuzzyMatchName]_vars

(***************************************************************************)
(* normalize_school on its own (lines 152-184).  The result is "harvard",  *)
(* "mit", "other" or "unknown" (None).                                     *)
(***************************************************************************)
\* "harvard", "business", "hbs", "mit": the words looked for in the school text
harvard == <<"h","a","r","v","a","r","d">>

business == <<"b","u","s","i","n","e","s","s">>

hbs == <<"h","b","s">>

mit == <<"m","i","t">>

\* "@harvard.edu", "@college.harvard.edu", "@mit.edu", ".edu": looked for in the email
AtHarvardEdu == <<"@","h","a","r","v","a","r","d",".","e","d","u">>

AtCollegeHarvardEdu == <<"@","c","o","l","l","e","g","e",".","h","a","r","v","a","r","d",".","e","d","u">>

AtMitEdu == <<"@","m","i","t",".","e","d","u">>

normalize_school(school_str, email_str) ==
    LET email_lower == Lower(email_str)
        school_lower == Lower(school_str)
        by_text == IF school_str = NULL THEN "unknown"
                   ELSE IF Contains(school_lower, harvard)
                   THEN IF ~Contains(school_lower, business) /\ ~Contains(school_lower, hbs)
                        THEN "harvard" ELSE "other"
                   ELSE IF Contains(school_lower, mit) THEN "mit"
                   ELSE IF school_lower # <<>> THEN "other"
                   ELSE "unknown"
    IN  IF Truthy(email_str)
        THEN IF Contains(email_lower, AtHarvardEdu) \/ Contains(email_lower, AtCollegeHarvardEdu)
             THEN "harvard"
             ELSE IF Contains(email_lower, AtMitEdu) THEN "mit"
             ELSE IF Contains(email_lower, DotEdu) THEN "other"
             ELSE by_text
        ELSE by_text

\* the emails and school texts normalize_school is evaluated on
EmailSamples ==
    { NULL, MailLower, MailEdu,
      <<"a","@","h","a","r","v","a","r","d",".","e","d","u">>,
      <<"a","@","C","o","l","l","e","g","e",".","H","a","r","v","a","r","d",".","e","d","u">>,
      <<"a","@","M","I","T",".","E","D","U">>,
      <<"a","@","c","s",".","h","a","r","v","a","r","d",".","e","d","u">>,
      <<"m",".","e","d","u","a","r","d","a","@","x",".","i","o">> }

SchoolSamples ==
    { NULL, <<>>, <<" ">>,
      <<"H","a","r","v","a","r","d">>,
      <<"H","a","r","v","a","r","d"," ","B","u","s","i","n","e","s","s"," ","S","c","h","o","o","l">>,
      <<"h","a","r","v","a","r","d"," ","(","H","B","S",")">>,
      <<"M","I","T">>,
      <<"S","m","i","t","h">>,
      <<"Y","a","l","e">>,
      <<"H","B","S">> }

InitSchool ==
    /\ Idle
    /\ \E school_str \in SchoolSamples, email_str \in EmailSamples :
          probe = [op |-> "normalize_school", school_str |-> school_str,
                   email_str |-> email_str, returned |-> FALSE, result |-> "unknown"]

NormalizeSchool ==
    /\ probe.op = "normalize_school" /\ ~probe.returned
    /\ probe' = [probe EXCEPT !.returned = TRUE,
                               !.result = normalize_school(probe.school_str, probe.email_str)]
    /\ UNCHANGED importer_vars

SpecSchool == InitSchool /\ [][NormalizeSchool]_vars

(***************************************************************************)
(* normalize_class_year on its own (lines 187-219).  now is the result of  *)
(* datetime.now(): [year, month].  The result is [known, year], with       *)
(* known = FALSE for None.                                                 *)
(***************************************************************************)
Digits == <<"0","1","2","3","4","5","6","7","8","9">>

\* str.isdigit() for the ASCII digits
isdigit(s) == s # <<>> /\ \A i \in 1..Len(s) : \E d \in 1..10 : Digits[d] = s[i]

DigitValue(c) == (CHOOSE d \in 1..10 : Digits[d] = c) - 1

\* int(s) for a string of digits
RECURSIVE ToInt(_)
ToInt(s) == IF s = <<>> THEN 0 ELSE 10 * ToInt(SubSeq(s, 1, Len(s) - 1)) + DigitValue(s[Len(s)])

\* the grade keywords of lines 210-217, with the years they add to current_year
GradeKeywords ==
    << [add |-> 4, words |-> {<<"f","r","e","s","h","m","a","n">>,
                              <<"f","i","r","s","t">>, <<"1","s","t">>}],
       [add |-> 3, words |-> {<<"s","o","p","h","o","m","o","r","e">>,
                              <<"s","e","c","o","n","d">>, <<"2","n","d">>}],
       [add |-> 2, words |-> {<<"j","u","n","i","o","r">>,
                              <<"t","h","i","r","d">>, <<"3","r","d">>}],
       [add |-> 1, words |-> {<<"s","e","n","i","o","r">>,
                              <<"f","o","u","r","t","h">>, <<"4","t","h">>}] >>

Unknown == [known |-> FALSE, year |-> 0]

Year(n) == [known |-> TRUE, year |-> n]

normalize_class_year(year_str, now) ==
    IF year_str = NULL THEN Unknown
    ELSE LET y == Strip(Lower(year_str))
             current_year == IF now.month >= 9 THEN now.year ELSE now.year - 1
             grades == {g \in 1..4 : \E w \in GradeKeywords[g].words : Contains(y, w)}
         IN  IF isdigit(y) /\ Len(y) = 4 THEN Year(ToInt(y))
             ELSE IF y # <<>> /\ y[1] = "'" /\ isdigit(Tail(y)) THEN Year(2000 + ToInt(Tail(y)))
             ELSE IF grades # {} THEN Year(current_year + GradeKeywords[MinOf(grades)].add)
             ELSE Unknown

\* the class-year texts and the dates normalize_class_year is evaluated on
YearSamples ==
    { NULL, <<>>, <<"'">>,
      <<"2","0","2","7">>, <<"'","2","7">>, <<"'","0","5">>,
      <<"'","2","0","2","7">>, <<"'","5">>, <<"2","0">>,
      <<"F","r","e","s","h","m","a","n">>,
      <<" ","s","o","p","h","o","m","o","r","e"," ">>,
      <<"j","u","n","i","o","r">>, <<"S","e","n","i","o","r">>,
      <<"1","s","t"," ","y","e","a","r">>,
      <<"2","n","d">>, <<"t","h","i","r","d"," ","y","e","a","r">>,
      <<"4","t","h">>, <<"g","r","a","d">> }

FirstYear == 2025

LastYear == 2026

InitClassYear ==
    /\ Idle
    /\ \E year_str \in YearSamples, year \in FirstYear..LastYear, month \in 1..12 :
          probe = [op |-> "normalize_class_year", year_str |-> year_str,
                   now |-> [year |-> year, month |-> month],
                   returned |-> FALSE, result |-> Unknown]

NormalizeClassYear ==
    /\ probe.op = "normalize_class_year" /\ ~probe.returned
    /\ probe' = [probe EXCEPT !.returned = TRUE,
                               !.result = normalize_class_year(probe.year_str, probe.now)]
    /\ UNCHANGED importer_vars

SpecClassYear == InitClassYear /\ [][NormalizeClassYear]_vars

(***************************************************************************)
(* create_attendance_record on its own, on an attendance table whose       *)
(* is_first_event flags are arbitrary: every (person, event) pair has no   *)
(* row, or a row that is or is not checked in and is or is not flagged.    *)
(* The row is processed for person 1.                                      *)
(***************************************************************************)
MaxFlaggedPeople == 2

FlaggedCells ==
    {[present |-> FALSE, checked_in |-> FALSE, is_first_event |-> FALSE]} \cup
    [present : {TRUE}, checked_in : BOOLEAN, is_first_event : BOOLEAN]

FlaggedTable(cells) ==
    {[person_id |-> p, event_id |-> e, rsvp |-> TRUE, approved |-> TRUE,
      checked_in |-> cells[p][e].checked_in, rsvp_datetime |-> NULL,
      is_first_event |-> cells[p][e].is_first_event, invite_token_id |-> 1]
     : <<p, e>> \in {c \in (1..MaxFlaggedPeople) \X Events : cells[c[1]][c[2]].present}}

InitFlags ==
    /\ Idle
    /\ \E cells \in [1..MaxFlaggedPeople -> [Events -> FlaggedCells]],
          e \in Events, row \in {BenScanned, BenNoShow} :
          probe = [op |-> "create_attendance_record", attendance |-> FlaggedTable(cells),
                   person_id |-> 1, event_id |-> e, row |-> row,
                   returned |-> FALSE, result |-> {}]

CreateAttendanceRecordAlone ==
    /\ probe.op = "create_attendance_record" /\ ~probe.returned
    /\ \E att \in create_attendance_record(probe.attendance, probe.person_id,
                                              probe.event_id, probe.row, 1) :
          probe' = [probe EXCEPT !.returned = TRUE, !.result = att]
    /\ UNCHANGED importer_vars

SpecFlags == InitFlags /\ [][CreateAttendanceRecordAlone]_vars

(***************************************************************************)
(* Long batches: one CSV file of up to MaxLongRows equal rows for event 1, *)
(* long enough for the periodic commit (every 10th row) and the periodic   *)
(* refresh (every 50th row).  The file is imported three times, the store  *)
(* being emptied again after the first time:                               *)
(*   "reference"    from the empty store, uninterrupted;                   *)
(*   "interrupted"  from the empty store, where any storage call may fail; *)
(*   "rerun"        on the store the interrupted call left, uninterrupted. *)
(* probe.reference is the store the reference call left, probe.kept the    *)
(* store the interrupted call left, probe.aborted whether it had failed.   *)
(***************************************************************************)
MaxLongRows == 51

LongRows == {Anonymous, BenScanned}

LongCsvFiles == {[i \in 1..k |-> r] : k \in 1..MaxLongRows, r \in LongRows}

InitLong ==
    /\ Idle
    /\ \E rows \in LongCsvFiles :
          probe = [op |-> "long", csv |-> rows, phase |-> "reference", running |-> FALSE,
                   reference |-> EmptyStore, kept |-> EmptyStore, aborted |-> FALSE]

StartLongBatch ==
    /\ probe.op = "long" /\ ~probe.running
    /\ Enter(1, probe.csv)
    /\ probe' = [probe EXCEPT !.running = TRUE]

\* the reference call is over: its result is kept and the store emptied again
RestoreInitialStore ==
    /\ pc = "idle" /\ probe.op = "long" /\ probe.running /\ probe.phase = "reference"
    /\ probe' = [probe EXCEPT !.phase = "interrupted", !.running = FALSE,
                               !.reference = committed]
    /\ db' = EmptyStore
    /\ committed' = EmptyStore
    /\ seq' = [people |-> 0, invitetokens |-> 0]
    /\ outcome' = "none"
    /\ UNCHANGED <<pc, event_id, csv, processed_count, row_locals, rows_read, rerun,
                   before, conn>>

\* a storage call of the interrupted call raises
Interrupt == probe.op = "long" /\ probe.phase = "interrupted" /\ StorageError

\* the interrupted call is over: the same file is imported again
Resume ==
    /\ pc = "idle" /\ probe.op = "long" /\ probe.running /\ probe.phase = "interrupted"
    /\ probe' = [probe EXCEPT !.phase = "rerun", !.running = FALSE,
                               !.kept = committed, !.aborted = (outcome # "completed")]
    /\ UNCHANGED importer_vars

NextLong ==
    \/ StartLongBatch
    \/ FindOrCreatePerson
    \/ CreateAttendanceRecord
    \/ CreditReferrer
    \/ FinishBatch
    \/ Return
    \/ RestoreInitialStore
    \/ Interrupt
    \/ Resume

SpecLong == InitLong /\ [][NextLong]_vars

(***************************************************************************)
(* find_or_create_person on its own, on a table of one stored person with  *)
(* the phone number Phone: the stored names and the names and phone of the *)
(* row are drawn from samples (a name in another, equal names, unrelated   *)
(* names, a missing name).  A row with the phone matches by phone, a row   *)
(* without it by name or not at all.                                       *)
(***************************************************************************)
NamedPeople ==
    {<<[first_name |-> f, last_name |-> l, school_email |-> NULL, personal_email |-> NULL,
        phone_number |-> Phone, referral_count |-> 0, event_attendance_count |-> 0]>>
     : f \in {NULL, Ben, Benjamin, <<"B","e","a">>},
       l \in {NULL, Smith, <<"S","m","i","t","h","s">>}}

NamedRows ==
    {[first_name |-> f, last_name |-> l, email |-> NULL, school_email |-> NULL,
      phone |-> ph, approved |-> Completed, checked_in |-> Scanned,
      rsvp_datetime |-> NULL, tracking_link |-> NULL, referral |-> NULL]
     : f \in {NULL, ben, Benjamin},
       l \in {NULL, smith, SmithsPadded, <<"L","e","e">>},
       ph \in {NULL, Phone}}

InitNames ==
    /\ Idle
    /\ \E people \in NamedPeople, row \in NamedRows :
          probe = [op |-> "find_or_create_person", people |-> people, row |-> row,
                   returned |-> FALSE, result |-> [raises |-> FALSE]]

FindOrCreatePersonAlone ==
    /\ probe.op = "find_or_create_person" /\ ~probe.returned
    /\ \E res \in find_or_create_person(probe.people, probe.row, Len(probe.people) + 1) :
          probe' = [probe EXCEPT !.returned = TRUE, !.result = res]
    /\ UNCHANGED importer_vars

SpecNames == InitNames /\ [][FindOrCreatePersonAlone]_vars

(***************************************************************************)
(* The referral step of one row on its own (lines 930-957): two people are *)
(* stored, person 1 under sample names and person 2 as "Bea Lee"; the row  *)
(* belongs to the attendee probe.person_id and carries a tracking link and *)
(* a referral column ("Ben Smith", "ben", "Bea Lee", or nothing).          *)
(***************************************************************************)
ReferralPeople ==
    {<<[first_name |-> f, last_name |-> l, school_email |-> NULL, personal_email |-> NULL,
        phone_number |-> NULL, referral_count |-> 0, event_attendance_count |-> 0],
       [first_name |-> <<"B","e","a">>, last_name |-> <<"L","e","e">>,
        school_email |-> NULL, personal_email |-> NULL,
        phone_number |-> NULL, referral_count |-> 0, event_attendance_count |-> 0]>>
     : f \in {NULL, Ben, Benjamin}, l \in {NULL, Smith}}

ReferralRows ==
    {[first_name |-> NULL, last_name |-> NULL, email |-> NULL, school_email |-> NULL,
      phone |-> NULL, approved |-> Completed, checked_in |-> c,
      rsvp_datetime |-> NULL, tracking_link |-> t, referral |-> r]
     : c \in {NULL, Scanned},
       t \in {NULL, ben, <<"b","e","a">>},
       r \in {NULL, <<"B","e","n"," ","S","m","i","t","h">>, ben,
              <<" ","b","e","a"," ","l","e","e">>}}

InitReferral ==
    /\ Idle
    /\ \E people \in ReferralPeople, p \in 1..2, row \in ReferralRows :
          probe = [op |-> "referral", people |-> people, person_id |-> p, row |-> row,
                   returned |-> FALSE, referrer_id |-> 0, result |-> people]

ResolveAndCreditReferrer ==
    /\ probe.op = "referral" /\ ~probe.returned
    /\ \E ref \in resolve_referrer(probe.people, probe.row).found :
          probe' = [probe EXCEPT !.returned = TRUE, !.referrer_id = ref,
                                 !.result = credit_referrer(probe.people, ref, probe.person_id)]
    /\ UNCHANGED importer_vars

SpecReferral == InitReferral /\ [][ResolveAndCreditReferrer]_vars

(***************************************************************************)
(* match_tracking_link_to_person on its own: two stored people under       *)
(* sample names (a name may be missing; "Smith" occurs as a first and as a *)
(* last name) and a link drawn from LinkSamples.  probe.result is the id   *)
(* returned, 0 for None.                                                   *)
(***************************************************************************)
LinkPeople ==
    {<<[first_name |-> f1, last_name |-> l1, school_email |-> NULL, personal_email |-> NULL,
        phone_number |-> NULL, referral_count |-> 0, event_attendance_count |-> 0],
       [first_name |-> f2, last_name |-> Ben, school_email |-> NULL, personal_email |-> NULL,
        phone_number |-> NULL, referral_count |-> 0, event_attendance_count |-> 0]>>
     : f1 \in {NULL, Ben, Benjamin}, l1 \in {NULL, Smith}, f2 \in {Smith, Benjamin}}

LinkSamples ==
    { NULL, Default, <<"E","m","a","i","l">>, <<"[","n","a","m","e","]">>, <<" ">>,
      ben, <<"B","e","n"," ">>, <<"b","e","n","n">>, smith, <<"s","m","i","t">>,
      <<"_","s","m","i","t","h">>, <<"s","m","i","t","-">>, <<"b","e","n","-","s","m","i","t","h">>,
      <<"b","e","n","j","a","m","i","n">>, <<"x","y","z">> }

InitLink ==
    /\ Idle
    /\ \E people \in LinkPeople, link \in LinkSamples :
          probe = [op |-> "match_tracking_link_to_person", people |-> people, link |-> link,
                   returned |-> FALSE, result |-> 0]

MatchTrackingLinkToPerson ==
    /\ probe.op = "match_tracking_link_to_person" /\ ~probe.returned
    /\ LET found == match_tracking_link_to_person(probe.people, probe.link, LINK_FUZZY_THRESHOLD)
       IN  \E r \in (IF found = {} THEN {0} ELSE found) :
              probe' = [probe EXCEPT !.returned = TRUE, !.result = r]
    /\ UNCHANGED importer_vars

SpecLink == InitLink /\ [][MatchTrackingLinkToPerson]_vars

(***************************************************************************)
(* The attendance and referral steps of one row on their own (lines        *)
(* 897-957), for an attendee already resolved: "Ben Smith" and "Bea Lee"   *)
(* are stored, the attendance table is any table of FlaggedTable, and the  *)
(* row is or is not checked in and may carry the tracking link "ben" or    *)
(* "bea".                                                                  *)
(***************************************************************************)
InitRow ==
    /\ Idle
    /\ \E cells \in [1..MaxFlaggedPeople -> [Events -> FlaggedCells]],
          people \in {q \in ReferralPeople : q[1].first_name = Ben /\ q[1].last_name = Smith},
          p \in 1..2, e \in Events,
          row \in {r \in ReferralRows : r.referral = NULL} :
          probe = [op |-> "row", people |-> people, attendance |-> FlaggedTable(cells),
                   person_id |-> p, event_id |-> e, row |-> row, returned |-> FALSE,
                   result |-> [people |-> people, attendance |-> FlaggedTable(cells)]]

AttendanceAndReferral ==
    /\ probe.op = "row" /\ ~probe.returned
    /\ \E att \in create_attendance_record(probe.attendance, probe.person_id,
                                              probe.event_id, probe.row, 1),
          ref \in resolve_referrer(probe.people, probe.row).found :
          probe' = [probe EXCEPT !.returned = TRUE,
                                 !.result = [people |-> credit_referrer(probe.people, ref, probe.person_id),
                                             attendance |-> att]]
    /\ UNCHANGED importer_vars

SpecRow == InitRow /\ [][AttendanceAndReferral]_vars

(***************************************************************************)
(* Long batches on a session that may be lost.  A row's referral block     *)
(* issues a statement only for a checked-in row with a tracking link that  *)
(* is not a generic code (lines 931-957); after any other row, the first   *)
(* use of the session is the periodic refresh or commit of lines 961-969,  *)
(* the next row, or the final commit.                                      *)
(***************************************************************************)
\* the row's referral block queries the store
referral_queries(row) ==
    /\ checked_in_of(row) /\ Truthy(row.tracking_link)
    /\ Lower(Strip(row.tracking_link)) \notin link_generic_codes

\* the session is lost and its next use is ensure_connection(conn, force_refresh=True)
LostAtRefresh ==
    /\ pc = "referral" /\ ~conn.alive
    /\ ~referral_queries(CurrentRow)
    /\ refreshes_after(processed_count + 1)

\* lines 82-93 on a lost session: conn.commit() raises, the exception is
\* passed over, a new session is opened; the work the lost session had not
\* committed is gone, and the loop goes on
RefreshLostSession ==
    /\ LostAtRefresh
    /\ referrer_id' = 0
    /\ processed_count' = processed_count + 1
    /\ db' = committed
    /\ conn' = [id |-> conn.id + 1, alive |-> TRUE]
    /\ pc' = IF processed_count' < Len(csv) THEN "person" ELSE "final"
    /\ UNCHANGED <<committed, seq, person_id, was_created, contact_updated,
                   inserted, call_vars, probe>>

NextLossy ==
    \/ StartLongBatch
    \/ FindOrCreatePerson
    \/ CreateAttendanceRecord
    \/ CreditReferrer
    \/ FinishBatch
    \/ Return
    \/ ConnectionLost
    \/ (OperationalError /\ ~LostAtRefresh)
    \/ RefreshLostSession

SpecLossy == InitLong /\ [][NextLossy]_vars

(***************************************************************************)
(* The token and INSERT part of create_attendance_record on its own (lines *)
(* 791-815), called up to MaxTokenCalls times from empty tables, for       *)
(* people 1 and 2 at either event, with a tracking link that is absent, a  *)
(* generic code in another case or with blanks, or a personal code.        *)
(* probe.link and probe.token_id are the link and the token of the last    *)
(* call.                                                                   *)
(***************************************************************************)
MaxTokenCalls == 3

TokenLinks ==
    { NULL, <<"E","m","a","i","l">>, <<" ","d","e","f","a","u","l","t">>, ben, Ben }

InitTokens ==
    /\ Idle
    /\ probe = [op |-> "find_or_create_invite_token", invitetokens |-> {}, attendance |-> {},
                calls |-> 0, link |-> NULL, token_id |-> 0]

FindTokenAndInsert ==
    /\ probe.op = "find_or_create_invite_token" /\ probe.calls < MaxTokenCalls
    /\ \E p \in 1..2, e \in Events, link \in TokenLinks :
       \E tok \in find_or_create_invite_token(probe.invitetokens, e, link,
                                               Cardinality(probe.invitetokens) + 1) :
          probe' = [probe EXCEPT
                      !.invitetokens = tok.invitetokens,
                      !.attendance = insert_attendance(@,
                          [person_id |-> p, event_id |-> e, rsvp |-> TRUE, approved |-> TRUE,
                           checked_in |-> FALSE, rsvp_datetime |-> NULL,
                           is_first_event |-> FALSE, invite_token_id |-> tok.id]),
                      !.calls = @ + 1, !.link = link, !.token_id = tok.id]
    /\ UNCHANGED importer_vars

SpecTokens == InitTokens /\ [][FindTokenAndInsert]_vars

(***************************************************************************)
(* Properties.                                                             *)
(***************************************************************************)
Stores == {db, committed}

RowStep == pc \in {"person", "attendance", "referral"} /\ pc' # "failed"

PersonResolved == pc = "person" /\ pc' = "attendance"

ReferralDone == pc = "referral" /\ pc' \in {"person", "final"}

CheckedInRows(attendance, p) == {a \in attendance : a.person_id = p /\ a.checked_in}

\* C1: the attendance table, as the session sees it and as committed, never
\* holds two rows with the same (person_id, event_id), whatever rows were
\* processed for whatever events, re-processing included.
C1_AttendanceKeyUnique ==
    \A s \in Stores : \A a, b \in s.attendance :
        (a.person_id = b.person_id /\ a.event_id = b.event_id) => a = b

\* a row resolved to a pair that already had an attendance row, stored with a
\* different checked_in value than the row carries: the INSERT was a no-op
C1_Witness ==
    /\ pc = "referral" /\ ~inserted
    /\ \E a \in db.attendance :
          a.person_id = person_id /\ a.event_id = event_id
          /\ a.checked_in # checked_in_of(CurrentRow)

\* C2 (as claimed): when a call that repeats the completed call before it
\* (same event, same rows) completes, the attendance rows are still unique
\* per pair, and events.attendance of the event and every person's
\* event_attendance_count are what they were after the first run.
C2_RerunKeepsAggregates ==
    (pc = "done" /\ rerun) =>
        /\ \A a, b \in db.attendance :
              (a.person_id = b.person_id /\ a.event_id = b.event_id) => a = b
        /\ db.events[event_id] = before.events[event_id]
        /\ \A p \in DOMAIN before.people :
              db.people[p].event_attendance_count = before.people[p].event_attendance_count

\* C3: from an empty store, whenever a person has checked-in attendance
\* rows, exactly one of them has is_first_event = TRUE, and its event starts
\* no later than the event of any other checked-in row of that person.
C3_OneEarliestFirstEvent ==
    \A s \in Stores : \A p \in DOMAIN s.people :
        LET mine == CheckedInRows(s.attendance, p)
        IN  mine # {} =>
              /\ Cardinality({a \in mine : a.is_first_event}) = 1
              /\ \A a \in mine : a.is_first_event =>
                    \A b \in mine : start_datetime[a.event_id] <= start_datetime[b.event_id]

\* a person checked in at both events; the flag is on the earlier event (id 2)
C3_Witness ==
    \E p \in DOMAIN db.people :
        /\ Cardinality(CheckedInRows(db.attendance, p)) = 2
        /\ \E a \in db.attendance : a.person_id = p /\ a.event_id = 2 /\ a.is_first_event

ContactFields == {"school_email", "personal_email", "phone_number"}

SetOnce(old, new) ==
    \A p \in DOMAIN old \cap DOMAIN new : \A f \in ContactFields :
        old[p][f] # NULL => new[p][f] = old[p][f]

\* C4: in every step that processes a row, and in the committed store in
\* every step, a contact field that is non-null keeps its value (so a merge
\* fills only null fields); and find_or_create_person reports
\* contact_updated = TRUE exactly when some contact field of the resolved
\* person went from null (or, for a new person, from absent) to non-null.
C4_ContactSetOnce ==
    [][ /\ RowStep => SetOnce(db.people, db'.people)
        /\ SetOnce(committed.people, committed'.people)
        /\ PersonResolved =>
              (contact_updated' <=>
                 \E f \in ContactFields :
                    /\ db'.people[person_id'][f] # NULL
                    /\ (person_id' \in DOMAIN db.people => db.people[person_id'][f] = NULL))
      ]_vars

\* a row matched a person whose stored personal email differs from the row's
C4_Witness ==
    /\ pc = "attendance" /\ ~was_created
    /\ db.people[person_id].personal_email # NULL
    /\ RowData(CurrentRow).personal_email # NULL
    /\ RowData(CurrentRow).personal_email # db.people[person_id].personal_email

\* C5: when the referrer resolved for a row is the row's own attendee, the
\* referral step changes no person's referral_count.
C5_NoSelfReferral ==
    [][ (ReferralDone /\ referrer_id' = person_id) =>
            \A p \in DOMAIN db.people :
                db'.people[p].referral_count = db.people[p].referral_count ]_vars

\* a checked-in row whose tracking link resolved to the attendee
C5_Witness ==
    /\ pc \in {"person", "final"} /\ processed_count > 0
    /\ referrer_id # 0 /\ referrer_id = person_id

\* C6: every checked-in row whose referrer resolves to a person other than
\* the attendee adds one to that referrer's referral_count, also when the
\* attendance INSERT of the row was a no-op: a second run of the same import
\* credits the referrer a second time.
C6_ReferralCreditRepeats ==
    [][ (ReferralDone /\ referrer_id' # 0 /\ referrer_id' # person_id) =>
            db'.people[referrer_id'].referral_count
                = db.people[referrer_id'].referral_count + 1 ]_vars

\* in a re-run, a row whose INSERT was a no-op has credited its referrer again
C6_Witness ==
    /\ pc = "final" /\ rerun /\ ~inserted
    /\ referrer_id # 0 /\ referrer_id # person_id
    /\ db.people[referrer_id].referral_count = before.people[referrer_id].referral_count + 1
    /\ before.people[referrer_id].referral_count >= 1

\* C7: when process_event_csv has completed for event E, events.attendance of
\* E is the number of attendance rows of E with checked_in = TRUE.
C7_EventAttendanceCount ==
    pc = "done" =>
        \A s \in Stores :
            s.events[event_id] = Cardinality({a \in s.attendance : a.event_id = event_id /\ a.checked_in})

\* a completed batch whose event has a checked-in row and a row not checked in
C7_Witness ==
    /\ pc = "done"
    /\ \E a, b \in db.attendance :
          a.event_id = event_id /\ b.event_id = event_id /\ a.checked_in /\ ~b.checked_in

\* C8: when process_event_csv has completed for event E, every person with an
\* attendance row for E has event_attendance_count equal to the number of
\* their checked-in rows over all events, and every other person existed
\* before the call and has the event_attendance_count it had then.
C8_PersonAttendanceCounts ==
    pc = "done" =>
        \A p \in DOMAIN db.people :
            IF \E a \in db.attendance : a.person_id = p /\ a.event_id = event_id
            THEN db.people[p].event_attendance_count
                    = Cardinality(CheckedInRows(db.attendance, p))
            ELSE /\ p \in DOMAIN before.people
                 /\ db.people[p].event_attendance_count = before.people[p].event_attendance_count

\* a completed batch with a person checked in at both events and a person
\* who has no row for the batch's event
C8_Witness ==
    /\ pc = "done"
    /\ \E p, q \in DOMAIN db.people :
          /\ Cardinality(CheckedInRows(db.attendance, p)) = 2
          /\ \E a \in db.attendance : a.person_id = p /\ a.event_id = event_id
          /\ CheckedInRows(db.attendance, q) # {}
          /\ ~\E a \in db.attendance : a.person_id = q /\ a.event_id = event_id

\* C9: find_or_create_person resolves the row to a person found by the first
\* of school-email, personal-email, phone, exact-name, fuzzy-name lookup that
\* finds anyone; and the fuzzy lookup is not run once an earlier lookup has
\* matched (its exception on a stored null name aborts only rows that no
\* earlier lookup matched).
C9_FirstStrategyWins ==
    [][ LET people == db.people
            row == CurrentRow
            s1 == by_school_email(people, row)
            s2 == by_personal_email(people, row)
            s3 == by_phone(people, row)
            s4 == by_name(people, row)
            s5 == by_fuzzy(people, row)
        IN  /\ PersonResolved =>
                /\ s1 # {} => person_id' \in s1
                /\ (s1 = {} /\ s2 # {}) => person_id' \in s2
                /\ (s1 = {} /\ s2 = {} /\ s3 # {}) => person_id' \in s3
                /\ (s1 = {} /\ s2 = {} /\ s3 = {} /\ s4 # {}) => person_id' \in s4
                /\ (s1 = {} /\ s2 = {} /\ s3 = {} /\ s4 = {} /\ s5.found # {}) => person_id' \in s5.found
            /\ (pc = "person" /\ pc' = "failed" /\ outcome' = "AttributeError") =>
                (s1 = {} /\ s2 = {} /\ s3 = {} /\ s4 = {} /\ s5.raises)
      ]_vars

\* the row was resolved by its personal email to one person although another
\* person carries exactly the row's name
C9_Witness ==
    /\ pc = "attendance" /\ ~was_created
    /\ by_school_email(db.people, CurrentRow) = {}
    /\ person_id \in by_personal_email(db.people, CurrentRow)
    /\ by_name(db.people, CurrentRow) # {}
    /\ person_id \notin by_name(db.people, CurrentRow)

\* C10: find_or_create_person reports was_created = TRUE exactly when none
\* of the lookups found a person; it then inserts exactly one person, the
\* one it returns; when was_created = FALSE the set of persons is unchanged;
\* and the call changes nothing but the record of the person it returns.
C10_CreatedIffNoMatch ==
    [][ PersonResolved =>
          LET people == db.people
              row == CurrentRow
              nobody == /\ by_school_email(people, row) = {}
                        /\ by_personal_email(people, row) = {}
                        /\ by_phone(people, row) = {}
                        /\ by_name(people, row) = {}
                        /\ by_fuzzy(people, row).found = {}
          IN  /\ was_created' <=> nobody
              /\ was_created' =>
                    /\ person_id' \notin DOMAIN people
                    /\ DOMAIN db'.people = DOMAIN people \cup {person_id'}
                    /\ \A p \in DOMAIN people : db'.people[p] = people[p]
              /\ ~was_created' =>
                    /\ person_id' \in DOMAIN people
                    /\ DOMAIN db'.people = DOMAIN people
                    /\ \A p \in DOMAIN people \ {person_id'} : db'.people[p] = people[p]
              /\ db'.attendance = db.attendance
              /\ db'.invitetokens = db.invitetokens
              /\ db'.events = db.events
      ]_vars

\* a row that matched nobody although people were stored: one person more
C10_Witness ==
    /\ pc = "attendance" /\ was_created
    /\ Cardinality(DOMAIN db.people) >= 2
    /\ Cardinality(DOMAIN db.people) = Cardinality(DOMAIN committed.people) + 1

\* C11 (as claimed): with the ratios given, fuzzy_match_name shortlists exactly
\* the people whose average ratio is >= 0.80, returns a person exactly when
\* the highest shortlisted average is >= 0.90, and then returns a person of
\* that highest average.  (first + last >= 160 is average >= 0.80.)
C11_FuzzyBoundaries ==
    (probe.op = "fuzzy_match_name" /\ probe.returned) =>
        LET r == probe.ratios
            twice(p) == r[p][1] + r[p][2]
            listed == {p \in DOMAIN r : twice(p) >= 160}
        IN  /\ shortlist(r) = listed
            /\ probe.result # 0 <=> (\E p \in listed : twice(p) >= 180)
            /\ probe.result # 0 =>
                  /\ probe.result \in listed
                  /\ \A q \in listed : twice(probe.result) >= twice(q)

AttendanceDone == pc = "attendance" /\ pc' = "referral"

\* C12: the invite-token table, as the session sees it and as committed,
\* never holds two tokens with the same (event_id, value); and when
\* create_attendance_record resolves a tracking link whose value already has
\* a token for the event, it inserts no token and the attendance row it
\* adds refers to the existing token.
C12_TokenPerEventValue ==
    [][ /\ \A s \in {db', committed'} : \A t, u \in s.invitetokens :
              (t.event_id = u.event_id /\ t.value = u.value) => t = u
        /\ AttendanceDone =>
              LET existing == {t \in db.invitetokens :
                                 /\ t.event_id = event_id
                                 /\ t.value = token_value(CurrentRow.tracking_link)}
              IN  existing # {} =>
                    /\ db'.invitetokens = db.invitetokens
                    /\ seq'.invitetokens = seq.invitetokens
                    /\ \A a \in db'.attendance :
                          (~\E b \in db.attendance :
                               b.person_id = a.person_id /\ b.event_id = a.event_id)
                          => \E t \in existing : a.invite_token_id = t.id
      ]_vars

\* a second attendance row of an event was added under the token the first
\* row of the event had created
C12_Witness ==
    /\ pc = "referral" /\ inserted
    /\ \E a, b \in db.attendance :
          /\ a # b /\ a.event_id = event_id /\ b.event_id = event_id
          /\ a.person_id = person_id
          /\ a.invite_token_id = b.invite_token_id
    /\ Cardinality({t \in db.invitetokens : t.event_id = event_id}) = 1

RowPositions == {"person", "attendance", "referral"}

Exceptions == {"AttributeError", "StorageError", "OperationalError"}

\* C13: when processing a row raises, the session's uncommitted effects are
\* rolled back (the session then shows exactly the committed tables), what
\* was committed stays, the row is not counted as processed, and the call
\* ends there: its only further step is the return to the caller, which
\* changes no table and carries the exception; no later row is processed
\* and no aggregate is recomputed.
C13_RowFailureAbortsBatch ==
    [][ /\ (pc \in RowPositions /\ pc' = "failed") =>
              /\ db' = committed
              /\ committed' = committed
              /\ processed_count' = processed_count
              /\ outcome' \in Exceptions
        /\ pc = "failed" =>
              /\ pc' = "idle"
              /\ db' = db /\ committed' = committed
              /\ outcome' = outcome
      ]_vars

\* a row failed after an earlier row's effects had been committed (by the
\* commit of update_names_if_substring) and a person created since then was
\* rolled back: the id sequence is ahead of the stored people
C13_Witness ==
    /\ pc = "failed" /\ outcome = "StorageError"
    /\ processed_count >= 1
    /\ committed.people # before.people
    /\ db = committed
    /\ seq.people > Cardinality(DOMAIN db.people)

\* C14 (as claimed): before each row the session is probed and, if it is
\* lost, reopened before the row's first storage operation; so no row fails
\* with the session's OperationalError in find_or_create_person, its first
\* storage operation, and a row that starts on a lost session is resolved
\* on a new one.
C14_ProbeBeforeEachRow ==
    [][ (pc = "person" /\ ~conn.alive /\ pc' # pc) =>
            /\ pc' = "attendance"
            /\ conn'.alive /\ conn'.id = conn.id + 1
      ]_vars

RunView(store) ==
    [rows   |-> {[first_name |-> store.people[a.person_id].first_name,
                  last_name |-> store.people[a.person_id].last_name,
                  event_attendance_count |-> store.people[a.person_id].event_attendance_count,
                  event_id |-> a.event_id, rsvp |-> a.rsvp, approved |-> a.approved,
                  checked_in |-> a.checked_in, is_first_event |-> a.is_first_event]
                 : a \in store.attendance},
     count  |-> Cardinality(store.attendance),
     events |-> store.events]

\* C16 (as claimed): when a call has failed part-way after committing some
\* of its rows and the same file is then imported again to completion, the
\* attendance rows, events.attendance, the event_attendance_count of the
\* rows' people and the is_first_event flags are those of one uninterrupted
\* import of the file into the initial store.
C16_RerunAfterAbortConverges ==
    ( /\ probe.op = "long" /\ probe.phase = "rerun" /\ pc = "done"
      /\ probe.aborted /\ probe.kept.attendance # {} )
    => RunView(db) = RunView(probe.reference)

\* the text after the last "@" of an email, in lower case
DomainOf(email) ==
    LET e == Lower(email)
        ats == {i \in 1..Len(e) : e[i] = "@"}
    IN  IF ats = {} THEN <<>> ELSE SubSeq(e, MaxOf(ats) + 1, Len(e))

EndsWith(s, suffix) ==
    Len(suffix) <= Len(s) /\ SubSeq(s, Len(s) - Len(suffix) + 1, Len(s)) = suffix

\* C17 (as claimed): the email decides whenever its domain is harvard.edu or
\* college.harvard.edu (harvard), mit.edu (mit) or any other .edu domain
\* (other); the school text is consulted exactly when the email is absent
\* or of no .edu domain, and then gives harvard for text containing
\* "harvard" without "business" / "hbs", other for text containing
\* "harvard" with one of them, mit for text containing "mit", other for any
\* other non-empty text and unknown for absent or empty text.
C17_SchoolPrecedence ==
    (probe.op = "normalize_school" /\ probe.returned) =>
        LET domain == IF Truthy(probe.email_str) THEN DomainOf(probe.email_str) ELSE <<>>
            text == Lower(probe.school_str)
            by_text == IF probe.school_str = NULL \/ text = <<>> THEN "unknown"
                       ELSE IF Contains(text, harvard) /\ ~Contains(text, business)
                                                       /\ ~Contains(text, hbs) THEN "harvard"
                       ELSE IF Contains(text, harvard) THEN "other"
                       ELSE IF Contains(text, mit) THEN "mit"
                       ELSE "other"
        IN  probe.result =
                IF domain \in {SubSeq(AtHarvardEdu, 2, Len(AtHarvardEdu)),
                               SubSeq(AtCollegeHarvardEdu, 2, Len(AtCollegeHarvardEdu))}
                THEN "harvard"
                ELSE IF domain = SubSeq(AtMitEdu, 2, Len(AtMitEdu)) THEN "mit"
                ELSE IF EndsWith(domain, DotEdu) THEN "other"
                ELSE by_text

\* C18 (as claimed): a bare 4-digit year gives that year; an apostrophe
\* followed by two digits gives 2000 + the digits; a text with a grade
\* keyword gives anchor + 4 (freshman), + 3 (sophomore), + 2 (junior) or + 1
\* (senior), the anchor being the current year from September on and the
\* year before until August; any other input gives unknown.
C18_ClassYear ==
    (probe.op = "normalize_class_year" /\ probe.returned) =>
        LET y == IF probe.year_str = NULL THEN <<>> ELSE Strip(Lower(probe.year_str))
            anchor == IF probe.now.month >= 9 THEN probe.now.year ELSE probe.now.year - 1
            has(g) == \E w \in GradeKeywords[g].words : Contains(y, w)
        IN  probe.result =
                IF Len(y) = 4 /\ isdigit(y) THEN Year(ToInt(y))
                ELSE IF Len(y) = 3 /\ y[1] = "'" /\ isdigit(Tail(y)) THEN Year(2000 + ToInt(Tail(y)))
                ELSE IF has(1) THEN Year(anchor + 4)
                ELSE IF has(2) THEN Year(anchor + 3)
                ELSE IF has(3) THEN Year(anchor + 2)
                ELSE IF has(4) THEN Year(anchor + 1)
                ELSE Unknown

\* C19: create_attendance_record leaves rsvp, approved, checked_in,
\* rsvp_datetime and invite_token_id of every attendance row that already
\* exists as they are, in particular those of the row of the pair the
\* input row resolves to, whatever the input row carries.
C19_ExistingRowKept ==
    [][ AttendanceDone =>
            \A b \in db.attendance : \E a \in db'.attendance :
                /\ a.person_id = b.person_id /\ a.event_id = b.event_id
                /\ a.rsvp = b.rsvp /\ a.approved = b.approved
                /\ a.checked_in = b.checked_in
                /\ a.rsvp_datetime = b.rsvp_datetime
                /\ a.invite_token_id = b.invite_token_id
      ]_vars

\* a checked-in row with an RSVP time was processed for a pair whose stored
\* row is not checked in and has another RSVP time: the stored row stays
C19_Witness ==
    /\ pc = "referral" /\ ~inserted
    /\ checked_in_of(CurrentRow)
    /\ \E a \in db.attendance :
          /\ a.person_id = person_id /\ a.event_id = event_id
          /\ ~a.checked_in
          /\ a.rsvp_datetime # rsvp_datetime_of(CurrentRow)
          /\ a.rsvp # rsvp_of(CurrentRow)

\* C20: whatever the is_first_event flags of a person's rows were, after
\* create_attendance_record has processed a checked-in row for the person,
\* and provided the person then has a stored checked-in row, exactly one
\* row of the person is flagged, it is a checked-in row whose event starts
\* no later than the event of any other checked-in row of the person, and
\* the rows of other people are as they were.
C20_FirstEventSelfHeals ==
    ( /\ probe.op = "create_attendance_record" /\ probe.returned
      /\ checked_in_of(probe.row)
      /\ CheckedInRows(probe.result, probe.person_id) # {} )
    => LET mine == {a \in probe.result : a.person_id = probe.person_id}
           checked == CheckedInRows(probe.result, probe.person_id)
       IN  /\ Cardinality({a \in mine : a.is_first_event}) = 1
           /\ \A a \in mine : a.is_first_event =>
                 /\ a \in checked
                 /\ \A b \in checked : start_datetime[a.event_id] <= start_datetime[b.event_id]
           /\ {a \in probe.result : a.person_id # probe.person_id}
                 = {a \in probe.attendance : a.person_id # probe.person_id}

\* both rows of the person were flagged, the later event's wrongly; the row
\* processed was a repetition; afterwards only the earlier event is flagged
C20_Witness ==
    /\ probe.op = "create_attendance_record" /\ probe.returned
    /\ checked_in_of(probe.row)
    /\ Cardinality({a \in probe.attendance : a.person_id = 1 /\ a.is_first_event /\ a.checked_in}) = 2
    /\ Cardinality(probe.result) = Cardinality(probe.attendance)
    /\ \E a \in probe.result : a.person_id = 1 /\ a.event_id = 2 /\ a.is_first_event
    /\ \E a \in probe.result : a.person_id = 1 /\ a.event_id = 1 /\ ~a.is_first_event

\* C21: when find_or_create_person has matched a row to the stored person,
\* and the stored and the incoming first name are both present, the stored
\* first name becomes the longer of the two if one contains the other
\* (case-insensitively) and is unchanged otherwise; the same holds for the
\* last name, whatever the first names are; a last name missing on either
\* side leaves the stored last name; a created person gets the row's names.
C21_NamesReconciled ==
    (probe.op = "find_or_create_person" /\ probe.returned /\ ~probe.result.raises)
    => LET res == probe.result
           row_data == RowData(probe.row)
           new == res.people[res.person_id]
       IN  IF res.was_created
           THEN /\ new.first_name = row_data.first_name
                /\ new.last_name = row_data.last_name
                /\ \A p \in DOMAIN probe.people :
                      /\ res.people[p].first_name = probe.people[p].first_name
                      /\ res.people[p].last_name = probe.people[p].last_name
           ELSE LET old == probe.people[res.person_id]
                IN  /\ (old.first_name # NULL /\ row_data.first_name # NULL)
                          => new.first_name =
                                IF EitherContains(old.first_name, row_data.first_name)
                                THEN Longer(old.first_name, row_data.first_name)
                                ELSE old.first_name
                    /\ new.last_name =
                          IF /\ old.last_name # NULL /\ row_data.last_name # NULL
                             /\ EitherContains(old.last_name, row_data.last_name)
                          THEN Longer(old.last_name, row_data.last_name)
                          ELSE old.last_name

\* C22: when the referral step has run for a checked-in row whose referral
\* column is present and non-empty and spells the first and last name of a
\* stored person other than the attendee, that person's referral_count is
\* one more than before.
C22_ReferralColumnCredits ==
    ( /\ probe.op = "referral" /\ probe.returned
      /\ checked_in_of(probe.row)
      /\ probe.row.referral # NULL /\ Strip(probe.row.referral) # <<>> )
    => \A p \in DOMAIN probe.people :
          ( /\ p # probe.person_id
            /\ probe.people[p].first_name # NULL /\ probe.people[p].last_name # NULL
            /\ Lower(Strip(probe.row.referral))
                 = Lower(probe.people[p].first_name \o <<" ">> \o probe.people[p].last_name) )
          => probe.result[p].referral_count = probe.people[p].referral_count + 1

\* C23: match_tracking_link_to_person returns nobody for an absent link and
\* for a link of the generic codes; for a link without "_" and "-" a person
\* it returns is one whose first name equals the link, if there is such a
\* person, and otherwise one whose first name has the highest similarity to
\* the link among all first names, that similarity being at least 0.80: the
\* last names have no part in it.
C23_SingleWordLinkFirstNameOnly ==
    (probe.op = "match_tracking_link_to_person" /\ probe.returned)
    => LET clean == IF Truthy(probe.link) THEN Lower(Strip(probe.link)) ELSE <<>>
           single == ~Contains(clean, <<"_">>) /\ ~Contains(clean, <<"-">>)
           first(p) == NameOrEmpty(probe.people[p].first_name)
           named == {p \in DOMAIN probe.people : first(p) # <<>>}
       IN  /\ (~Truthy(probe.link) \/ clean \in link_generic_codes) => probe.result = 0
           /\ (Truthy(probe.link) /\ single /\ probe.result # 0)
                 => IF \E p \in DOMAIN probe.people : first(p) = clean
                    THEN first(probe.result) = clean
                    ELSE /\ probe.result \in named
                         /\ RatioGeq(fuzzy_ratio(clean, first(probe.result)), [num |-> 80, den |-> 100])
                         /\ \A q \in named : RatioGeq(fuzzy_ratio(clean, first(probe.result)),
                                                      fuzzy_ratio(clean, first(q)))

\* the link "smith": person 1 is called Smith by last name and is not
\* returned, person 2 is called Smith by first name and is
C23_Witness ==
    /\ probe.op = "match_tracking_link_to_person" /\ probe.returned
    /\ probe.link = smith
    /\ probe.people[1].last_name = Smith /\ probe.people[1].first_name = Ben
    /\ probe.people[2].first_name = Smith
    /\ probe.result = 2

\* C24: when the attendance and referral steps have run for a row that is
\* not checked in, every attendance row that was stored is still stored with
\* the is_first_event flag it had, and every person has the referral_count
\* they had.
C24_NoShowRowLeavesFlagsAndCredits ==
    (probe.op = "row" /\ probe.returned /\ ~checked_in_of(probe.row))
    => /\ \A b \in probe.attendance : \E a \in probe.result.attendance :
             /\ a.person_id = b.person_id /\ a.event_id = b.event_id
             /\ a.is_first_event = b.is_first_event
       /\ \A p \in DOMAIN probe.people :
             probe.result.people[p].referral_count = probe.people[p].referral_count

\* a row that is not checked in, came through the link "ben" of another
\* stored person, and belongs to an attendee whose later event is flagged
\* although both their events are checked in
C24_Witness ==
    /\ probe.op = "row" /\ probe.returned /\ ~checked_in_of(probe.row)
    /\ probe.row.tracking_link = ben /\ probe.person_id = 2
    /\ match_tracking_link_to_person(probe.people, probe.row.tracking_link, LINK_FUZZY_THRESHOLD) = {1}
    /\ \E a \in probe.attendance :
          a.person_id = 2 /\ a.event_id = 1 /\ a.checked_in /\ a.is_first_event
    /\ \E a \in probe.attendance :
          a.person_id = 2 /\ a.event_id = 2 /\ a.checked_in /\ ~a.is_first_event

\* the sum of referral_count over the people of S
RECURSIVE TotalReferrals(_, _)
TotalReferrals(people, S) ==
    IF S = {} THEN 0
    ELSE LET p == CHOOSE x \in S : TRUE
         IN  people[p].referral_count + TotalReferrals(people, S \ {p})

\* C25: no step removes a committed person or lowers a committed
\* referral_count; a step that does not roll back removes no person of the
\* session's table and lowers no referral_count in it; the sum of all
\* referral_counts grows by 0 or 1 in the referral step of a row and not at
\* all in any other step.
C25_ReferralCountMonotonic ==
    [][ /\ \A p \in DOMAIN committed.people :
              /\ p \in DOMAIN committed'.people
              /\ committed'.people[p].referral_count >= committed.people[p].referral_count
        /\ pc' # "failed" =>
              /\ \A p \in DOMAIN db.people :
                    /\ p \in DOMAIN db'.people
                    /\ db'.people[p].referral_count >= db.people[p].referral_count
              /\ LET grown == TotalReferrals(db'.people, DOMAIN db'.people)
                                - TotalReferrals(db.people, DOMAIN db.people)
                 IN  IF pc = "referral" THEN grown \in {0, 1} ELSE grown = 0
      ]_vars

\* several people are stored, two referrals have been credited, and the row
\* just processed credited a person other than its attendee
C25_Witness ==
    /\ pc \in {"person", "final"} /\ processed_count > 0
    /\ referrer_id # 0 /\ referrer_id # person_id
    /\ TotalReferrals(db.people, DOMAIN db.people) >= 2
    /\ Cardinality(DOMAIN db.people) >= 2

\* C26: when a person with a missing first or last name is stored and the
\* row being resolved reaches the fuzzy-name strategy (it has both names and
\* no email, phone or exact-name match), find_or_create_person does not
\* raise, the call goes on to the row's attendance record, and the person it
\* returns is not one of the stored people with a missing name.
C26_MissingNameTolerated ==
    [][ ( /\ pc = "person"
          /\ \E p \in DOMAIN db.people :
                db.people[p].first_name = NULL \/ db.people[p].last_name = NULL
          /\ Truthy(RowData(CurrentRow).first_name) /\ Truthy(RowData(CurrentRow).last_name)
          /\ by_school_email(db.people, CurrentRow) = {}
          /\ by_personal_email(db.people, CurrentRow) = {}
          /\ by_phone(db.people, CurrentRow) = {}
          /\ by_name(db.people, CurrentRow) = {} )
        => /\ pc' = "attendance"
           /\ outcome' # "AttributeError"
           /\ person_id' \in DOMAIN db.people =>
                 /\ db.people[person_id'].first_name # NULL
                 /\ db.people[person_id'].last_name # NULL
      ]_vars

\* C27: on a session that may be lost, a step that does not end the call in
\* an error keeps every attendance row the session has written; the step
\* that completes a row leaves that row's (person, event) in the session's
\* table; and a call that completes has committed the session's table: so
\* a call that returns without raising has committed an attendance row for
\* every input row.
C27_NoRowLostWithoutError ==
    [][ /\ pc' # "failed" =>
              \A a \in db.attendance : \E b \in db'.attendance :
                  b.person_id = a.person_id /\ b.event_id = a.event_id
        /\ (pc = "referral" /\ pc' \in {"person", "final"}) =>
              \E b \in db'.attendance : b.person_id = person_id /\ b.event_id = event_id
        /\ pc' = "done" => committed'.attendance = db'.attendance
      ]_vars

\* C28: no commit is issued while a row is half processed: the steps that
\* resolve the row's person and write its attendance record leave the
\* committed store as it is (commits come with the step that completes a
\* row, and at the end of the batch).
C28_CommitsOnRowBoundary ==
    [][ (pc \in {"person", "attendance"}) => (committed' = committed) ]_vars

\* C29: starting from a store without attendance rows, in every state (at
\* the row boundaries in particular) and in the session's as in the committed
\* table, an attendance row with is_first_event = TRUE has checked_in = TRUE.
C29_FirstEventOnlyOnCheckedIn ==
    \A store \in {db, committed} : \A a \in store.attendance :
        a.is_first_event => a.checked_in

\* at a row boundary, a person who registered for the earlier event without
\* checking in and checked in at the later one: the later event's row is
\* flagged, the earlier event's row is not
C29_Witness ==
    /\ pc \in {"person", "final"} /\ processed_count > 0
    /\ \E a, b \in db.attendance :
          /\ a.person_id = b.person_id
          /\ start_datetime[b.event_id] < start_datetime[a.event_id]
          /\ a.checked_in /\ a.is_first_event
          /\ ~b.checked_in /\ ~b.is_first_event

\* C30: every attendance row refers to exactly one stored invite token, that
\* token is of the row's event, and its category is "mailing list" exactly
\* when its value is "default"; and the token found or created for an absent
\* link or a generic code has the value "default".
C30_TokenOfSameEvent ==
    (probe.op = "find_or_create_invite_token")
    => /\ \A a \in probe.attendance :
             /\ Cardinality({t \in probe.invitetokens : t.id = a.invite_token_id}) = 1
             /\ \A t \in probe.invitetokens : t.id = a.invite_token_id =>
                   /\ t.event_id = a.event_id
                   /\ (t.category = MailingList) <=> (t.value = Default)
       /\ ( /\ probe.calls > 0
            /\ \/ ~Truthy(probe.link)
               \/ Lower(Strip(probe.link)) \in token_generic_codes )
          => \A t \in probe.invitetokens : t.id = probe.token_id => t.value = Default

\* the generic code "Email" has just been stored under "default" for one
\* event, the other event has its own "default" token, and a personal code
\* is stored as well
C30_Witness ==
    /\ probe.op = "find_or_create_invite_token"
    /\ probe.link = <<"E","m","a","i","l">>
    /\ \E a, b, c \in probe.attendance : \E t, u, v \in probe.invitetokens :
          /\ t.id = a.invite_token_id /\ u.id = b.invite_token_id /\ v.id = c.invite_token_id
          /\ a.event_id # b.event_id /\ t.id # u.id
          /\ t.value = Default /\ u.value = Default /\ t.id = probe.token_id
          /\ v.category = PersonalOutreach

====
